---- MODULE Spec2Model ----
(***************************************************************************)
(* The Resource Manager of opendut-carl: a typed key/value store with a    *)
(* single reader-writer lock, backend transactions and a per-kind          *)
(* subscription bus whose events are relayed through a per-transaction     *)
(* buffer and published after the transaction returns.                     *)
(*                                                                         *)
(* An Option<T> is a set of at most one element: {} is None, {v} Some(v).  *)
(* A resource value is a record [name, interfaces]; only a PeerDescriptor  *)
(* carries network interfaces, every other kind has interfaces = {}.       *)
(***************************************************************************)
EXTENDS Integers, Sequences, FiniteSets, TLC

(* ------------------------------ bounds -------------------------------- *)

\* Ids of every kind are drawn from 1..MaxId (the same values serve as
\* ClusterId and PeerId, as two UUIDs may coincide).
MaxId == 1
\* The names a resource value may carry.
MaxName == 2
\* The network interface ids a PeerDescriptor may carry.
MaxInterface == 2
\* Subscriber slots.
NumSubscribers == 2
\* Subscriber slots in use where the callers perform up to MaxOps operations.
SoloSubscribers == 1
\* Manager calls per behaviour where both subscriber slots are in use.
MaxFanOutOps == 4
\* Concurrent callers of get, list and resources.
MaxReaders == 2
\* Storage operations per behaviour where readers run next to the writers.
MaxReaderOps == 2
\* Kinds in use by the callers of one behaviour.
KindsInUse == 2
\* Storage operations (inserts and removes, alone or in closures) per behaviour.
MaxOps == 3
\* Peers whose rows the database may hold when they are read back.
MaxStoredPeers == 2
\* Callers that may wait for the writer lock.
MaxCallers == 2

\* Callers that wait where cancellation, panics and re-entrance are followed.
SoloCallers == 1

\* Storage operations per behaviour where every caller is served in the end.
MaxFairOps == 1
\* Read callbacks where callers wait, are cancelled or panic.
SoloReaders == 1
\* Storage operations per behaviour where callers wait, are cancelled or panic.
MaxCallerOps == 2

\* Capacity of one broadcast channel of ResourceSubscriptionChannels (both
\* the live channels and the relay buffer are of that type).
ChannelCapacity == 3

(* ------------------------------ kinds --------------------------------- *)

\* The fields of ResourceSubscriptionChannels in the order in which
\* send_relayed_subscription_events drains them.
KindOrder ==
    << "ClusterConfiguration", "ClusterDeployment", "OldPeerConfiguration",
       "PeerConfiguration", "PeerDescriptor", "PeerState" >>

Kinds == { KindOrder[i] : i \in 1..Len(KindOrder) }

\* impl Resource for ...: type Id.
IdType(k) ==
    IF k \in {"ClusterConfiguration", "ClusterDeployment"} THEN "ClusterId" ELSE "PeerId"

Ids == 1..MaxId
Interfaces == 1..MaxInterface
Subs == 1..NumSubscribers

SimpleValues == { [name |-> n, interfaces |-> {}] : n \in 1..MaxName }
\* Peer descriptor n carries the interfaces n..MaxInterface: a higher name
\* comes with fewer interfaces.
PeerDescriptors == { [name |-> n, interfaces |-> n..MaxInterface] : n \in 1..MaxName }

\* The values a caller may insert for kind k.
ValuesOf(k) == IF k = "PeerDescriptor" THEN PeerDescriptors ELSE SimpleValues

(* ------------------------------ storage ------------------------------- *)

TheOne(S) == CHOOSE x \in S : TRUE

\* A storage holds, per kind, a map from id to Option<value> (kv), and, for
\* the relational backend, the peer_descriptor table (peer_id -> name) with
\* its network_interface_descriptor child rows (peer_id, interface_id).
EmptyStorage ==
    [ kv |-> [k \in Kinds |-> [i \in Ids |-> {}]],
      peer_descriptor |-> [i \in Ids |-> {}],
      network_interface_descriptor |-> {} ]

\* query::network_interface_descriptor::list_filtered_by_peer
NetworkInterfacesOfPeer(st, id) ==
    { f \in Interfaces : <<id, f>> \in st.network_interface_descriptor }

\* query::peer_descriptor::list: one descriptor per selected parent row (the
\* whole table, or Filter::By(peer_id)), its children assembled from the rows
\* of the child table that carry its peer id.
PeerDescriptorList(st, filter) ==
    { [ id |-> i,
        value |-> [ name |-> TheOne(st.peer_descriptor[i]),
                    interfaces |-> NetworkInterfacesOfPeer(st, i) ] ] :
        i \in { j \in filter : st.peer_descriptor[j] # {} } }

\* query::network_interface_descriptor::insert: upsert of one child row.
NetworkInterfaceInsert(rows, id, f) == rows \cup { <<id, f>> }

\* query::peer_descriptor::insert: upsert the parent row, then upsert one
\* child row per network interface of the inserted descriptor.
PeerDescriptorInsert(st, id, v) ==
    [ st EXCEPT !.peer_descriptor[id] = {v.name},
                !.network_interface_descriptor =
                    UNION ({@} \cup { NetworkInterfaceInsert(@, id, f) : f \in v.interfaces }) ]

\* query::peer_descriptor::remove: list by id and keep the first, then delete
\* the parent row; its child rows go with it (referential cascade).
PeerDescriptorRemove(st, id) ==
    [ ok |-> TRUE,
      returned |-> { e.value : e \in PeerDescriptorList(st, {id}) },
      st |-> [ st EXCEPT !.peer_descriptor[id] = {},
                         !.network_interface_descriptor = { r \in @ : r[1] # id } ] ]

\* Whether kind k of this backend is kept in the relational tables above.
Relational(backend, k) == backend = "Persistent" /\ k = "PeerDescriptor"

\* The foreign keys of the relational schema between kinds: a cluster
\* deployment refers to the cluster configuration of the same cluster id. A
\* statement that would leave a deployment without its configuration fails.
ForeignKeyViolation(backend, st, op, k, id) ==
    /\ backend = "Persistent"
    /\ \/ op = "insert" /\ k = "ClusterDeployment" /\ st.kv["ClusterConfiguration"][id] = {}
       \/ op = "remove" /\ k = "ClusterConfiguration" /\ st.kv["ClusterDeployment"][id] # {}

\* The per-kind map of the volatile storage (and of the kinds whose tables
\* carry no child rows): insert overwrites, remove returns the prior value.
MapInsert(st, k, id, v) == [ st EXCEPT !.kv[k][id] = {v} ]

MapRemove(st, k, id) ==
    [ ok |-> TRUE, returned |-> st.kv[k][id], st |-> [ st EXCEPT !.kv[k][id] = {} ] ]

StorageInsert_AnyKindOfId(backend, st, k, id, v) ==
    IF ForeignKeyViolation(backend, st, "insert", k, id)
    THEN [ ok |-> FALSE, st |-> st ]
    ELSE IF Relational(backend, k)
    THEN [ ok |-> TRUE, st |-> PeerDescriptorInsert(st, id, v) ]
    ELSE [ ok |-> TRUE,
           st |-> [ st EXCEPT !.kv = [ j \in Kinds |->
                        IF IdType(j) = IdType(k) /\ ~Relational(backend, j)
                        THEN [ @[j] EXCEPT ![id] = {v} ] ELSE @[j] ] ] ]

StorageInsert_Unchecked(backend, st, k, id, v) ==
    IF Relational(backend, k)
    THEN [ ok |-> TRUE, st |-> PeerDescriptorInsert(st, id, v) ]
    ELSE [ ok |-> TRUE, st |-> MapInsert(st, k, id, v) ]

\* ResourcesStorageApi::insert: resource.insert(id, storage), by kind.
StorageInsert(backend, st, k, id, v) ==
    IF ForeignKeyViolation(backend, st, "insert", k, id)
    THEN [ ok |-> FALSE, st |-> st ]
    ELSE IF Relational(backend, k)
    THEN [ ok |-> TRUE, st |-> PeerDescriptorInsert(st, id, v) ]
    ELSE [ ok |-> TRUE, st |-> MapInsert(st, k, id, v) ]

StorageRemove_AnyKindOfId(backend, st, k, id) ==
    IF ForeignKeyViolation(backend, st, "remove", k, id)
    THEN [ ok |-> FALSE, returned |-> {}, st |-> st ]
    ELSE IF Relational(backend, k)
    THEN PeerDescriptorRemove(st, id)
    ELSE [ ok |-> TRUE, returned |-> st.kv[k][id],
           st |-> [ st EXCEPT !.kv = [ j \in Kinds |->
                        IF IdType(j) = IdType(k) /\ ~Relational(backend, j)
                        THEN [ @[j] EXCEPT ![id] = {} ] ELSE @[j] ] ] ]

\* ResourcesStorageApi::remove: R::remove(id, storage), by kind.
StorageRemove(backend, st, k, id) ==
    IF ForeignKeyViolation(backend, st, "remove", k, id)
    THEN [ ok |-> FALSE, returned |-> {}, st |-> st ]
    ELSE IF Relational(backend, k)
    THEN PeerDescriptorRemove(st, id)
    ELSE MapRemove(st, k, id)

\* ResourcesStorageApi::get: R::get(id, storage); the relational get lists by
\* id and takes the first.
StorageGet(backend, st, k, id) ==
    IF Relational(backend, k)
    THEN { e.value : e \in PeerDescriptorList(st, {id}) }
    ELSE st.kv[k][id]

\* ResourcesStorageApi::list: the entities of kind k, each with its id.
StorageList(backend, st, k) ==
    IF Relational(backend, k)
    THEN PeerDescriptorList(st, Ids)
    ELSE { [ id |-> i, value |-> TheOne(st.kv[k][i]) ] :
             i \in { j \in Ids : st.kv[k][j] # {} } }

(* --------------------------- subscription bus ------------------------- *)

\* SubscriptionEvent::Inserted { id, value } of kind k.
Inserted(k, id, v) == [ type |-> "Inserted", kind |-> k, id |-> id, value |-> v ]

\* SubscriptionEvent::Removed { id, value } of kind k.
Removed(k, id, v) == [ type |-> "Removed", kind |-> k, id |-> id, value |-> v ]

\* One receiver's view of a broadcast channel: the values sent and not yet
\* received, and whether the receiver has lagged (values it had not received
\* were overwritten, so that its next receive returns an error).
EmptyChannel == [ buf |-> <<>>, lagged |-> FALSE ]

\* Sender::send as the receiver sees it: the channel retains the last
\* ChannelCapacity values; the oldest is overwritten when it is full.
ChannelSend(ch, e) ==
    IF Len(ch.buf) < ChannelCapacity
    THEN [ ch EXCEPT !.buf = Append(@, e) ]
    ELSE [ buf |-> Append(Tail(ch.buf), e), lagged |-> TRUE ]

\* ResourceSubscriptionChannels::default, as the relay buffer of a transaction.
EmptyRelay == [ k \in Kinds |-> EmptyChannel ]

\* ResourceSubscriptionChannels::notify on the relay buffer.
RelayNotify(relay, e) == [ relay EXCEPT ![e.kind] = ChannelSend(@, e) ]

\* A subscriber slot: unused ("none"), holding a Subscription<kind>
\* ("active"), or having dropped it ("dropped"). notified lists the events
\* sent to the subscription during the current or the latest manager call.
NoSubscriber ==
    [ status |-> "none", kind |-> "ClusterConfiguration", inbox |-> EmptyChannel,
      notified |-> <<>> ]

\* ResourceSubscriptionChannels::notify on the live channels: the event goes
\* to every live subscription of its kind.
\* The receivers of the live channel of kind k: the one the channel pair
\* itself holds, and one per live subscription.
ReceiverCount_SubscribersOnly(subs, k) ==
    Cardinality({ s \in Subs : subs[s].status = "active" /\ subs[s].kind = k })

ReceiverCount(subs, k) ==
    1 + Cardinality({ s \in Subs : subs[s].status = "active" /\ subs[s].kind = k })

\* The result of ResourceSubscriptionChannels::notify: the send of a
\* broadcast channel fails only when the channel has no receiver; a receiver
\* that lags or is full does not fail it.
NotifyResult(subs, e) == IF ReceiverCount(subs, e.kind) > 0 THEN "Ok" ELSE "Err"

Notify_NewestFirst(subs, e) ==
    [ s \in Subs |->
        IF subs[s].status = "active" /\ subs[s].kind = e.kind
        THEN [ subs[s] EXCEPT !.inbox.buf = IF Len(@) < ChannelCapacity THEN << e >> \o @ ELSE @,
                              !.notified = Append(@, e) ]
        ELSE subs[s] ]

Notify_FirstOnly(subs, e) ==
    LET to == { s \in Subs : subs[s].status = "active" /\ subs[s].kind = e.kind }
    IN  [ s \in Subs |->
            IF s \in to /\ \A o \in to : s <= o
            THEN [ subs[s] EXCEPT !.inbox = ChannelSend(@, e), !.notified = Append(@, e) ]
            ELSE subs[s] ]

Notify(subs, e) ==
    [ s \in Subs |->
        IF subs[s].status = "active" /\ subs[s].kind = e.kind
        THEN [ subs[s] EXCEPT !.inbox = ChannelSend(@, e), !.notified = Append(@, e) ]
        ELSE subs[s] ]

RECURSIVE NotifyAll(_, _)
NotifyAll(subs, events) ==
    IF events = <<>> THEN subs
    ELSE NotifyAll(Notify(subs, Head(events)), Tail(events))

Drain_Reversed(channel) ==
    IF channel.lagged THEN <<>>
    ELSE [ i \in 1..Len(channel.buf) |-> channel.buf[Len(channel.buf) + 1 - i] ]

\* notify_for_relayed_subscription_events_on_channel: the events the loop
\* `while let Ok(event) = receiver.try_recv()` takes from one relay channel.
\* The first try_recv of a lagged receiver returns an error, which ends it.
Drain(channel) ==
    IF channel.lagged THEN <<>> ELSE channel.buf

RECURSIVE DrainInOrder_Backwards(_, _)
DrainInOrder_Backwards(relayed, i) ==
    IF i > Len(KindOrder) THEN <<>>
    ELSE DrainInOrder_Backwards(relayed, i + 1) \o Drain(relayed[KindOrder[i]])

RECURSIVE DrainInOrder(_, _)
DrainInOrder(relayed, i) ==
    IF i > Len(KindOrder) THEN <<>>
    ELSE Drain(relayed[KindOrder[i]]) \o DrainInOrder(relayed, i + 1)

\* send_relayed_subscription_events: the relay channels are drained one after
\* the other in the order of KindOrder, each event notified as it is taken.
SendRelayedSubscriptionEvents(relayed, subs) ==
    NotifyAll(subs, DrainInOrder(relayed, 1))

\* Whether every `.expect(..)` on the result of notify passes while the relayed
\* events are sent.
AllNotified(relayed, subs) ==
    LET events == DrainInOrder(relayed, 1)
    IN  \A i \in 1..Len(events) : NotifyResult(subs, events[i]) = "Ok"

\* The start of a manager call that mutates: nothing was notified yet.
ResetNotified(subs) == [ s \in Subs |-> [ subs[s] EXCEPT !.notified = <<>> ] ]

LiveSubscribers(subs) == { s \in Subs : subs[s].status = "active" }

(* ----------------------------- transactions --------------------------- *)

\* The record of the calls of notify that send_relayed_subscription_events
\* made for the latest call, kept where it is asked for: the events in the
\* order sent, and the events of the successful inserts of the closure in the
\* order executed.
NotRecorded == [ recording |-> FALSE, events |-> <<>>, executed |-> <<>> ]

ExecutedInserts(performed) ==
    LET inserts == SelectSeq(performed, LAMBDA p : p.op = "insert" /\ p.ok)
    IN  [ i \in 1..Len(inserts) |->
            [ type |-> "Inserted", kind |-> inserts[i].kind, id |-> inserts[i].id,
              value |-> CHOOSE v \in inserts[i].value : TRUE ] ]

Recorded(record, performed, relayed) ==
    IF record.recording
    THEN [ recording |-> TRUE, events |-> DrainInOrder(relayed, 1),
           executed |-> ExecutedInserts(performed) ]
    ELSE record

\* Resources::transaction, begin: a backend transaction on a working copy of
\* the storage and an empty relay buffer. before, performed and live record
\* the storage and the live subscribers at the start and the operations of the
\* closure.
BeginTransaction(st, subs) ==
    [ work |-> st, relay |-> EmptyRelay, poisoned |-> FALSE,
      before |-> st, performed |-> <<>>, live |-> LiveSubscribers(subs) ]

NoTransaction == BeginTransaction(EmptyStorage, [ s \in Subs |-> NoSubscriber ])

BackendInsert_ForgetsFailure(backend, t, k, id, v) ==
    StorageInsert(backend, t.work, k, id, v)

\* The backend transaction's insert: a statement on a relational transaction
\* in which an earlier statement failed fails as well.
BackendInsert(backend, t, k, id, v) ==
    IF backend = "Persistent" /\ t.poisoned
    THEN [ ok |-> FALSE, st |-> t.work ]
    ELSE StorageInsert(backend, t.work, k, id, v)

\* The backend transaction's remove.
BackendRemove(backend, t, k, id) ==
    IF backend = "Persistent" /\ t.poisoned
    THEN [ ok |-> FALSE, returned |-> {}, st |-> t.work ]
    ELSE StorageRemove(backend, t.work, k, id)

Performed(op, k, id, value, ok, returned) ==
    [ op |-> op, kind |-> k, id |-> id, value |-> value, ok |-> ok, returned |-> returned ]

TransactionInsert_QueuesAlways(backend, t, k, id, v) ==
    LET result == BackendInsert(backend, t, k, id, v)
    IN  [ t EXCEPT !.work = result.st,
                   !.relay = RelayNotify(@, Inserted(k, id, v)),
                   !.poisoned = @ \/ ~result.ok,
                   !.performed = Append(@, Performed("insert", k, id, {v}, result.ok, {})) ]

\* ResourcesTransaction::insert: forward to the backend transaction and, when
\* that succeeded, queue Inserted on the relay buffer.
TransactionInsert(backend, t, k, id, v) ==
    LET result == BackendInsert(backend, t, k, id, v)
    IN  [ t EXCEPT !.work = result.st,
                   !.relay = IF result.ok THEN RelayNotify(@, Inserted(k, id, v)) ELSE @,
                   !.poisoned = @ \/ ~result.ok,
                   !.performed = Append(@, Performed("insert", k, id, {v}, result.ok, {})) ]

\* ResourcesTransaction::remove: forward to the backend transaction.
TransactionRemove(backend, t, k, id) ==
    LET result == BackendRemove(backend, t, k, id)
    IN  [ t EXCEPT !.work = result.st,
                   !.poisoned = @ \/ ~result.ok,
                   !.performed = Append(@, Performed("remove", k, id, {}, result.ok,
                                                     result.returned)) ]

\* ResourcesTransaction::get
TransactionGet(backend, t, k, id) == StorageGet(backend, t.work, k, id)

\* ResourcesTransaction::list
TransactionList(backend, t, k) == StorageList(backend, t.work, k)

\* Resources::transaction, end: the closure returned Ok (closureOk) or Err.
\* On Ok the backend transaction commits, which a relational backend may
\* refuse (commitOk), and does refuse after a failed statement; the working
\* copy then becomes the storage and the relay buffer is handed back. In every
\* other case the storage stays as it is and the relay buffer is discarded;
\* a failed commit is the outer error.
EndTransaction(st, t, closureOk, commitOk) ==
    LET committed == closureOk /\ commitOk /\ ~t.poisoned
    IN  [ committed |-> committed,
          outer |-> IF closureOk /\ ~committed THEN "Err" ELSE "Ok",
          inner |-> IF closureOk THEN "Ok" ELSE "Err",
          storage |-> IF committed THEN t.work ELSE st,
          relayed |-> IF committed THEN t.relay ELSE EmptyRelay ]

\* The outcomes of a commit: the volatile backend swaps its snapshot in, the
\* relational one may fail (connection loss).
CommitOutcomes(backend) == IF backend = "Persistent" THEN BOOLEAN ELSE {TRUE}

(* ------------------------------- start-up ----------------------------- *)

\* The strings a configuration may hold under persistence.database.url, as
\* the parts a URL is made of: nothing, a host without a scheme, and two
\* URLs of scheme and host.
UrlStrings ==
    { <<>>, << "db.example" >>, << "postgres", "db.example" >>, << "postgres", "localhost" >> }

Usernames == { "carl", "postgres" }

Passwords == { "secret", "" }

\* The configurations: each of the four keys absent ({}) or present.
Configs ==
    [ enabled : { {}, {TRUE}, {FALSE} },
      url : { {} } \cup { {u} : u \in UrlStrings },
      username : { {} } \cup { {n} : n \in Usernames },
      password : { {} } \cup { {w} : w \in Passwords } ]

\* Url::parse: a URL needs a scheme before its host.
UrlParse(value) ==
    IF Len(value) = 2
    THEN [ ok |-> TRUE, url |-> [ scheme |-> value[1], host |-> value[2] ] ]
    ELSE [ ok |-> FALSE, url |-> [ scheme |-> "", host |-> "" ] ]

\* LoadError::FieldRetrieval { field, .. } and LoadError::Parse { field, value, .. };
\* Config is the error of config.get_bool, converted by `?`.
LoadError(kind, field, value) ==
    [ tag |-> "Err", kind |-> kind, field |-> field, value |-> value ]

PersistenceOptionsLoad_FallsBack(cfg) ==
    IF cfg.enabled = {} THEN LoadError("Config", "persistence.enabled", {})
    ELSE IF cfg.enabled = {FALSE} THEN [ tag |-> "Disabled" ]
    ELSE IF cfg.url = {} \/ cfg.username = {} \/ cfg.password = {}
    THEN [ tag |-> "Disabled" ]
    ELSE IF ~UrlParse(TheOne(cfg.url)).ok
    THEN [ tag |-> "Disabled" ]
    ELSE [ tag |-> "Enabled",
           database_connect_info |-> [ url |-> UrlParse(TheOne(cfg.url)).url,
                                       username |-> TheOne(cfg.username),
                                       password |-> TheOne(cfg.password) ] ]

\* PersistenceOptions::load: persistence.enabled first; when it is true the
\* url is retrieved and parsed, then the username and the password are
\* retrieved, and the first of these steps that fails is the error returned.
PersistenceOptionsLoad(cfg) ==
    IF cfg.enabled = {} THEN LoadError("Config", "persistence.enabled", {})
    ELSE IF cfg.enabled = {FALSE} THEN [ tag |-> "Disabled" ]
    ELSE IF cfg.url = {}
    THEN LoadError("FieldRetrieval", "persistence.database.url", {})
    ELSE IF ~UrlParse(TheOne(cfg.url)).ok
    THEN LoadError("Parse", "persistence.database.url", cfg.url)
    ELSE IF cfg.username = {}
    THEN LoadError("FieldRetrieval", "persistence.database.username", {})
    ELSE IF cfg.password = {}
    THEN LoadError("FieldRetrieval", "persistence.database.password", {})
    ELSE [ tag |-> "Enabled",
           database_connect_info |-> [ url |-> UrlParse(TheOne(cfg.url)).url,
                                       username |-> TheOne(cfg.username),
                                       password |-> TheOne(cfg.password) ] ]

\* ResourcesStorage::connect: the relational storage for Enabled, when the
\* database can be connected to, and the volatile storage for Disabled.
StorageConnect_FallsBackToVolatile(opts, reachable) ==
    IF opts.tag = "Disabled" \/ ~reachable THEN [ tag |-> "Ok", storage |-> "Volatile" ]
    ELSE [ tag |-> "Ok", storage |-> "Persistent" ]

StorageConnect(opts, reachable) ==
    IF opts.tag = "Disabled" THEN [ tag |-> "Ok", storage |-> "Volatile" ]
    ELSE IF reachable THEN [ tag |-> "Ok", storage |-> "Persistent" ]
    ELSE [ tag |-> "Err", kind |-> "Database", url |-> opts.database_connect_info.url ]

\* ResourcesManager::create has not been called.
NotCreated == [ tag |-> "NotCreated" ]

\* No configuration read, nothing loaded (the manager is already running).
NoConfig == [ enabled |-> {}, url |-> {}, username |-> {}, password |-> {} ]

NotLoaded == [ tag |-> "NotLoaded" ]

(* --------------------------- rows read back --------------------------- *)

StoredPeers == 1..MaxStoredPeers

\* The strings a column may hold; the empty one is no valid name.
StoredStrings == { "", "edgar" }

\* The rows of table peer_descriptor a database may hold: per peer id none
\* or one, of a name and an optional location and bridge name.
StoredRows ==
    [ StoredPeers ->
        { {} } \cup
        { {row} : row \in [ name : StoredStrings,
                            location : { {} } \cup { {x} : x \in StoredStrings },
                            network_bridge_name : { {} } \cup { {x} : x \in StoredStrings } ] } ]

\* PeerName::try_from, PeerLocation::try_from, NetworkInterfaceName::try_from:
\* whether the stored string is a valid value of the type.
TryFrom(value) == value # ""

\* PersistenceError::get::<PeerDescriptor>(id, cause)
PersistenceErrorGet(id, cause) == [ kind |-> "Get", id |-> id, cause |-> cause ]

\* PersistenceError::list::<PeerDescriptor>(cause).context(..)
PersistenceErrorList(cause, context) ==
    [ tag |-> "Err", kind |-> "List", context |-> context, cause |-> cause ]

\* The closure of list: the row of a peer converted to a PeerDescriptor, the
\* name first, then the location, then the bridge name.
PeerDescriptorFromRow(id, row) ==
    IF ~TryFrom(row.name)
    THEN [ ok |-> FALSE, error |-> PersistenceErrorGet(id, "name") ]
    ELSE IF \E x \in row.location : ~TryFrom(x)
    THEN [ ok |-> FALSE, error |-> PersistenceErrorGet(id, "location") ]
    ELSE IF \E x \in row.network_bridge_name : ~TryFrom(x)
    THEN [ ok |-> FALSE, error |-> PersistenceErrorGet(id, "network_bridge_name") ]
    ELSE [ ok |-> TRUE,
           value |-> [ id |-> id, name |-> row.name, location |-> row.location,
                       bridge_name |-> row.network_bridge_name ] ]

\* The orders in which a query may return the rows of the peers in ids.
RowOrders(ids) ==
    { order \in [ 1..Cardinality(ids) -> ids ] :
        \A i, j \in 1..Cardinality(ids) : i # j => order[i] # order[j] }

PeerDescriptorListRows_SkipsInvalid(rws, order) ==
    [ tag |-> "Ok",
      entries |-> { PeerDescriptorFromRow(order[i], TheOne(rws[order[i]])).value :
                      i \in { j \in 1..Len(order) :
                                PeerDescriptorFromRow(order[j], TheOne(rws[order[j]])).ok } } ]

\* query::peer_descriptor::list over the rows the query returned, in their
\* order: collect stops at the first row that does not convert, and its
\* error becomes the cause of a List error.
PeerDescriptorListRows(rws, order) ==
    LET failed == { i \in 1..Len(order) :
                      ~PeerDescriptorFromRow(order[i], TheOne(rws[order[i]])).ok }
    IN  IF failed = {}
        THEN [ tag |-> "Ok",
               entries |-> { PeerDescriptorFromRow(order[i], TheOne(rws[order[i]])).value :
                               i \in 1..Len(order) } ]
        ELSE LET first == CHOOSE i \in failed : \A j \in failed : i <= j
             IN  PersistenceErrorList(
                   PeerDescriptorFromRow(order[first], TheOne(rws[order[first]])).error,
                   "Failed to convert from database values to PeerDescriptor.")

NotListed == [ filter |-> {}, returned |-> [ tag |-> "NotListed" ] ]

\* PersistenceError::remove::<PeerDescriptor>(peer_id.uuid, cause)
PersistenceErrorRemove(id) == [ tag |-> "Err", kind |-> "Remove", id |-> id ]

\* The child tables a database may hold next to rows rws: network interface
\* rows, each of a peer that has its row.
StoredChildren(rws) ==
    SUBSET { << q, f >> : q \in { x \in StoredPeers : rws[x] # {} }, f \in Interfaces }

PeerDescriptorRemoveRows_DeletesFirst(rws, children, id, order, deleteOk) ==
    IF ~deleteOk
    THEN [ rows |-> rws, children |-> children, returned |-> PersistenceErrorRemove(id) ]
    ELSE [ rows |-> [ rws EXCEPT ![id] = {} ],
           children |-> { c \in children : c[1] # id },
           returned |-> [ tag |-> "Removed", value |-> {} ] ]

\* query::peer_descriptor::remove over the stored rows: list by id, which
\* returns early with its error; keep the first entry, with the interfaces
\* the child query gave it; delete the parent row, the child rows going with
\* it (referential cascade), unless the statement fails.
PeerDescriptorRemoveRows(rws, children, id, order, deleteOk) ==
    LET listed == PeerDescriptorListRows(rws, order)
    IN  IF listed.tag = "Err"
        THEN [ rows |-> rws, children |-> children, returned |-> listed ]
        ELSE IF ~deleteOk
        THEN [ rows |-> rws, children |-> children, returned |-> PersistenceErrorRemove(id) ]
        ELSE [ rows |-> [ rws EXCEPT ![id] = {} ],
               children |-> { c \in children : c[1] # id },
               returned |-> [ tag |-> "Removed",
                              value |-> { [ descriptor |-> e,
                                            interfaces |-> { c[2] : c \in { x \in children :
                                                                              x[1] = e.id } } ] :
                                          e \in listed.entries } ] ]

(* ---------------- EDGAR setup: write the CA certificate ---------------- *)

\* The certificates a task is given, and the two line endings a PEM text can
\* have on disk.
Certificates == {"carl-ca", "other-ca"}

LineEndings == {"LF", "CRLF"}

\* encode_certificate_as_string: the PEM text of the certificate, with LF.
EncodeCertificateAsString(certificate) ==
    [ pem |-> certificate, ending |-> "LF" ]

PemTexts == [ pem : Certificates, ending : LineEndings ]

\* util::checksum::string and util::checksum::file: the digest of a text,
\* and of the bytes of a file, which differ for different texts.
ChecksumString(text) == [ digest |-> text ]

ChecksumFile(content) == ChecksumString(content)

Checksums == { ChecksumString(text) : text \in PemTexts }

\* The four paths of the task, and what is at a path: nothing ({}), or a
\* file with its content.
CertificatePaths == {"carl_ca_certificate_path", "os_cert_store_ca_certificate_path"}

ChecksumPaths == {"checksum_carl_ca_certificate_file",
                  "checksum_os_cert_store_ca_certificate_file"}

Paths == CertificatePaths \cup ChecksumPaths

FileSystems ==
    { fs \in [ Paths -> { {} } \cup { {c} : c \in PemTexts \cup Checksums } ] :
        /\ \A path \in CertificatePaths : fs[path] \subseteq PemTexts
        /\ \A path \in ChecksumPaths : fs[path] \subseteq Checksums }

NoFiles == [ path \in Paths |-> {} ]

Exists(fs, path) == fs[path] # {}

Content(fs, path) == CHOOSE c \in fs[path] : TRUE

\* WriteCaCertificate::check_fulfilled.
CheckFulfilled_CertificatesFirst(fs, certificate) ==
    LET fromFiles ==
            /\ Exists(fs, "carl_ca_certificate_path")
            /\ Exists(fs, "os_cert_store_ca_certificate_path")
        fromChecksums ==
            /\ Exists(fs, "checksum_carl_ca_certificate_file")
            /\ Exists(fs, "checksum_os_cert_store_ca_certificate_file")
        installed ==
            IF fromFiles
            THEN << ChecksumFile(Content(fs, "carl_ca_certificate_path")),
                    ChecksumFile(Content(fs, "os_cert_store_ca_certificate_path")) >>
            ELSE << Content(fs, "checksum_carl_ca_certificate_file"),
                    Content(fs, "checksum_os_cert_store_ca_certificate_file") >>
        provided == ChecksumString(EncodeCertificateAsString(certificate))
    IN  IF ~fromChecksums /\ ~fromFiles THEN "No"
        ELSE IF installed[1] = provided /\ installed[2] = provided
             THEN "Yes" ELSE "No"

CheckFulfilled(fs, certificate) ==
    LET fromChecksums ==
            /\ Exists(fs, "checksum_carl_ca_certificate_file")
            /\ Exists(fs, "checksum_os_cert_store_ca_certificate_file")
        fromFiles ==
            /\ Exists(fs, "carl_ca_certificate_path")
            /\ Exists(fs, "os_cert_store_ca_certificate_path")
        installed ==
            IF fromChecksums
            THEN << Content(fs, "checksum_carl_ca_certificate_file"),
                    Content(fs, "checksum_os_cert_store_ca_certificate_file") >>
            ELSE << ChecksumFile(Content(fs, "carl_ca_certificate_path")),
                    ChecksumFile(Content(fs, "os_cert_store_ca_certificate_path")) >>
        provided == ChecksumString(EncodeCertificateAsString(certificate))
    IN  IF ~fromChecksums /\ ~fromFiles THEN "No"
        ELSE IF installed[1] = provided /\ installed[2] = provided
             THEN "Yes" ELSE "No"

\* The steps of WriteCaCertificate::execute that write, in order; each can
\* fail, and execute returns the error of the first that does.
ExecuteSteps == << "write_certificate", "write_checksum", "copy_certificate",
                   "update_ca_certificates", "write_os_checksum" >>

\* write_carl_certificate: the file system after its first n steps.
WriteCarlCertificate(fs, certificate, n) ==
    LET written == IF n >= 1
                   THEN [ fs EXCEPT !["carl_ca_certificate_path"] =
                                    { EncodeCertificateAsString(certificate) } ]
                   ELSE fs
    IN  IF n >= 2
        THEN [ written EXCEPT !["checksum_carl_ca_certificate_file"] =
                   { ChecksumFile(Content(written, "carl_ca_certificate_path")) } ]
        ELSE written

\* write_os_cert_store_certificate: the file system after the steps up to
\* the n-th of execute.
WriteOsCertStoreCertificate(fs, n) ==
    LET copied == IF n >= 3
                  THEN [ fs EXCEPT !["os_cert_store_ca_certificate_path"] =
                                   fs["carl_ca_certificate_path"] ]
                  ELSE fs
    IN  IF n >= 5
        THEN [ copied EXCEPT !["checksum_os_cert_store_ca_certificate_file"] =
                   { ChecksumFile(Content(copied, "os_cert_store_ca_certificate_path")) } ]
        ELSE copied

\* WriteCaCertificate::execute, of which the first n steps succeed.
ExecuteTask_SkipsOsChecksum(fs, certificate, n) ==
    [ files |-> WriteOsCertStoreCertificate(
                    WriteCarlCertificate(fs, certificate, n), IF n >= 5 THEN 4 ELSE n),
      result |-> IF n = Len(ExecuteSteps) THEN "Success" ELSE "Err" ]

ExecuteTask(fs, certificate, n) ==
    [ files |-> WriteOsCertStoreCertificate(WriteCarlCertificate(fs, certificate, n), n),
      result |-> IF n = Len(ExecuteSteps) THEN "Success" ELSE "Err" ]

\* How many times in a row a task is executed successfully.
MaxRuns == 2

\* A task that has not run yet.
NoTask == [ certificate |-> "carl-ca", fulfilled |-> "NotChecked",
            executed |-> "NotExecuted", runs |-> 0 ]

(* --------------- the statements of a peer descriptor insert ------------ *)

\* The children a peer descriptor is stored with: its network interfaces,
\* the devices of its topology and its executors, each a Vec.
InterfaceNames == {"eth0", "can0"}

DeviceNames == {"ecu", "sensor"}

ExecutorNames == {"container"}

\* The sequences without repetition of up to n elements of S.
UpTo(S, n) ==
    { q \in UNION { [ 1..m -> S ] : m \in 0..n } :
        \A i, j \in 1..Len(q) : i # j => q[i] # q[j] }

\* Peers whose descriptor is inserted statement by statement.
MaxInsertedPeers == 1

InsertedPeers == 1..MaxInsertedPeers

InsertedDescriptors ==
    [ id : InsertedPeers,
      interfaces : UpTo(InterfaceNames, Cardinality(InterfaceNames)),
      devices : UpTo(DeviceNames, Cardinality(DeviceNames)),
      executors : UpTo(ExecutorNames, Cardinality(ExecutorNames)) ]

\* One statement: the table it writes, the peer and the row.
Statement(table, peer, row) == [ table |-> table, peer |-> peer, row |-> row ]

StatementsOf(table, peer, children) ==
    [ i \in 1..Len(children) |-> Statement(table, peer, children[i]) ]

\* insert: the statements in the order the code issues them.
PeerDescriptorInsertStatements_ChildrenFirst(descriptor) ==
    StatementsOf("network_interface_descriptor", descriptor.id, descriptor.interfaces)
    \o << Statement("peer_descriptor", descriptor.id, "") >>
    \o StatementsOf("device_descriptor", descriptor.id, descriptor.devices)
    \o StatementsOf("executor_descriptor", descriptor.id, descriptor.executors)

PeerDescriptorInsertStatements(descriptor) ==
    << Statement("peer_descriptor", descriptor.id, "") >>
    \o StatementsOf("network_interface_descriptor", descriptor.id, descriptor.interfaces)
    \o StatementsOf("device_descriptor", descriptor.id, descriptor.devices)
    \o StatementsOf("executor_descriptor", descriptor.id, descriptor.executors)

\* The tables: the set of the rows written.
NoRows == {}

\* insert, when the statement at place failing fails (0: none does): every
\* statement before it is executed, `?` returns its error, and the
\* statements after it are not issued.
PeerDescriptorInsertRows(table, descriptor, failing) ==
    LET statements == PeerDescriptorInsertStatements(descriptor)
        failed == failing \in 1..Len(statements)
        issued == IF failed THEN SubSeq(statements, 1, failing) ELSE statements
        done == IF failed THEN SubSeq(statements, 1, failing - 1) ELSE statements
    IN  [ table |-> table \cup { done[i] : i \in 1..Len(done) },
          descriptor |-> descriptor,
          issued |-> issued,
          result |-> IF failed
                     THEN [ tag |-> "Err", kind |-> "Insert", statement |-> statements[failing] ]
                     ELSE [ tag |-> "Ok" ] ]

\* No insert has been called on the empty tables.
NotInserted ==
    [ table |-> NoRows,
      descriptor |-> [ id |-> 1, interfaces |-> << >>, devices |-> << >>, executors |-> << >> ],
      issued |-> << >>,
      result |-> [ tag |-> "NotCalled" ] ]

(* ------------------- the clients of the identity provider -------------- *)

\* The ids of the resources that clients are registered for.
ResourceIds == {"peer-a", "peer-b"}

\* struct Client { client_id, base_url }.
RegisteredClients ==
    { [ client_id |-> "edgar-1", base_url |-> { << "https", "carl", "resources", "peer-a" >> } ],
      [ client_id |-> "edgar-2", base_url |-> { << "https", "carl", "resources", "peer-a" >> } ],
      [ client_id |-> "edgar-3", base_url |-> { << "https", "carl", "resources", "peer-b" >> } ],
      [ client_id |-> "cleo", base_url |-> {} ] }

\* The answers of the identity provider to GET clients/: the clients it
\* lists, in the order it lists them.
ClientListings == UpTo(RegisteredClients, Cardinality(RegisteredClients))

\* base_url.is_some_and(|url| url.contains(resource_id)).
Contains(url, rid) == \E i \in 1..Len(url) : url[i] = rid

Matches(client, rid) == \E url \in client.base_url : Contains(url, rid)

\* What can become of one request: create_http_request_with_auth_token fails
\* ("NoToken": get_token returned an error), or the request is sent and
\* async_http_client returns Ok or Err.
RequestOutcomes == {"Ok", "Err", "NoToken"}

\* Vec<String>::join(",").
RECURSIVE Join(_)
Join(ids) ==
    IF ids = << >> THEN << >>
    ELSE IF Len(ids) = 1 THEN ids
    ELSE << Head(ids), "," >> \o Join(Tail(ids))

ClientIds(clients) == [ i \in 1..Len(clients) |-> clients[i].client_id ]

\* RegistrationClientError::RequestError, the error of a request that could
\* not be authorised or whose response is an error.
RequestError == [ tag |-> "Err", kind |-> "RequestError" ]

\* list_clients: the clients of the listing whose base url contains the
\* resource id.
ListClients(listing, rid, outcome) ==
    IF outcome = "Ok"
    THEN [ tag |-> "Ok", clients |-> SelectSeq(listing, LAMBDA client : Matches(client, rid)) ]
    ELSE RequestError

\* The loop of delete_client over the clients from place i on: the requests
\* sent and the clients whose response was an error, until a request cannot
\* be authorised, which ends the call.
RECURSIVE DeleteEach(_, _, _)
DeleteEach(clients, outcomes, i) ==
    IF i > Len(clients) THEN [ sent |-> << >>, failed |-> << >>, aborted |-> FALSE ]
    ELSE IF outcomes[i] = "NoToken" THEN [ sent |-> << >>, failed |-> << >>, aborted |-> TRUE ]
    ELSE LET rest == DeleteEach(clients, outcomes, i + 1)
         IN  [ sent |-> << clients[i].client_id >> \o rest.sent,
               failed |-> (IF outcomes[i] = "Err" THEN << clients[i].client_id >> ELSE << >>)
                          \o rest.failed,
               aborted |-> rest.aborted ]

\* RegistrationClient::delete_client.
DeleteClient(listing, rid, listed, outcomes) ==
    LET clients == ListClients(listing, rid, listed)
    IN  IF clients.tag = "Err"
        THEN [ resource |-> rid, answered |-> listing, listed |-> << >>, outcomes |-> << >>, attempted |-> << >>,
               result |-> clients ]
        ELSE LET loop == DeleteEach(clients.clients, outcomes, 1)
             IN  [ resource |-> rid,
                   answered |-> listing,
                   listed |-> clients.clients,
                   outcomes |-> SubSeq(outcomes, 1, Len(clients.clients)),
                   attempted |-> loop.sent,
                   result |-> IF loop.aborted THEN RequestError
                              ELSE IF loop.failed = << >>
                              THEN [ tag |-> "Ok", clients |-> clients.clients ]
                              ELSE [ tag |-> "Err", kind |-> "ClientDeletionError",
                                     client_ids |-> Join(loop.failed) ] ]

\* RegistrationClient::delete_client has not been called.
NotDeleted ==
    [ resource |-> "peer-a", answered |-> << >>, listed |-> << >>, outcomes |-> << >>, attempted |-> << >>,
      result |-> [ tag |-> "NotCalled" ] ]

(* -------------------------------- state ------------------------------- *)

VARIABLES
    backend,      \* ResourcesStorage: "Volatile" or "Persistent"
    scope,        \* the kinds the callers of this behaviour use
    store,        \* State.resources: the committed storage
    subscribers,  \* State.subscribers: the live channels, per subscriber slot
    lock,         \* ResourcesManager.state: "free", "writer", or "reentered" when
                  \* the closure of the writer waits for a call into the manager
    tx,           \* the open transaction of the resources_mut in progress
    ops,          \* storage operations performed so far
    last,         \* the latest completed insert, remove or resources_mut
    readers,      \* the callers of get, list and resources that hold the read lock
    waiting,      \* the callers whose self.state.write().await is pending
    config,       \* the configuration PersistenceOptions::load reads
    options,      \* what PersistenceOptions::load returned
    rows,         \* the rows of table peer_descriptor as the database holds them
    listing,      \* what query::peer_descriptor::list returned for them
    queue,        \* the callers that wait for the state lock, first in, first out
    published,    \* the calls of notify made for the latest call, where recorded
    created,      \* what ResourcesManager::create returned
    inserting,    \* the tables of a peer descriptor and what its latest insert did
    deletion,     \* what the latest RegistrationClient::delete_client did
    files,        \* what is at the four paths of WriteCaCertificate
    task          \* the WriteCaCertificate task and what its calls returned

vars == << backend, scope, store, subscribers, lock, tx, ops, last, readers,
           waiting, config, options, rows, listing, queue, published,
           deletion, inserting, created, files, task >>

\* The state of the start-up and of the database table read back, which no
\* call of the running manager changes.
startup == << config, options >>
database == << rows, listing >>

\* The state outside of the resources manager and its database.
outside == << files, task, created, inserting, deletion >>

\* What an operation that does not wait for the state lock leaves alone.
elsewhere == << outside, queue, published >>

NothingElse ==
    /\ queue = << >>
    /\ published = NotRecorded
    /\ files = NoFiles
    /\ task = NoTask
    /\ deletion = NotDeleted
    /\ inserting = NotInserted
    /\ created = NotCreated

Readers == 1..MaxReaders

Callers == 1..MaxCallers

\* A caller that holds no read lock; one that holds it records the storage
\* as it was when the lock was acquired (from) and its latest query (seen).
NoReader == [ status |-> "idle", from |-> EmptyStorage, seen |-> {} ]

\* How many operations of a closure were successful inserts of kind k, or
\* failed.
InsertedOf(performed, k) ==
    Len(SelectSeq(performed, LAMBDA p : p.op = "insert" /\ p.ok /\ p.kind = k))

FailedIn(performed) == Len(SelectSeq(performed, LAMBDA p : ~p.ok))

\* The record of a completed call: what was called, what it returned (outer:
\* the PersistenceResult, inner: the closure's result, returned: the Option a
\* remove returns), how many of its inserts succeeded, how many operations failed,
\* and the subscribers that were live when it started.
Completed_Flattened(op, k, id, value, end, t) ==
    [ op |-> op, kind |-> k, id |-> id, value |-> value,
      outer |-> IF end.inner = "Err" THEN "Err" ELSE end.outer,
      inner |-> end.inner, committed |-> end.committed,
      returned |-> IF op = "remove" THEN t.performed[1].returned ELSE {},
      inserted |-> [ j \in Kinds |-> InsertedOf(t.performed, j) ],
      failures |-> FailedIn(t.performed),
      live |-> t.live ]

Completed(op, k, id, value, end, t) ==
    [ op |-> op, kind |-> k, id |-> id, value |-> value,
      outer |-> end.outer, inner |-> end.inner, committed |-> end.committed,
      returned |-> IF op = "remove" THEN t.performed[1].returned ELSE {},
      inserted |-> [ j \in Kinds |-> InsertedOf(t.performed, j) ],
      failures |-> FailedIn(t.performed),
      live |-> t.live ]

NoCall ==
    [ op |-> "none", kind |-> "ClusterConfiguration", id |-> 1, value |-> {},
      outer |-> "Ok", inner |-> "Ok", committed |-> FALSE, returned |-> {},
      inserted |-> [ j \in Kinds |-> 0 ], failures |-> 0, live |-> {} ]

\* ResourcesManager::create: the storage of the chosen backend, empty, and
\* ResourceSubscriptionChannels::default.
Init ==
    /\ backend \in {"Volatile", "Persistent"}
    /\ scope \in { ks \in SUBSET Kinds : Cardinality(ks) = KindsInUse }
    /\ store = EmptyStorage
    /\ subscribers = [ s \in Subs |-> NoSubscriber ]
    /\ lock = "free"
    /\ tx = NoTransaction
    /\ ops = 0
    /\ last = NoCall
    /\ readers = [ r \in Readers |-> NoReader ]
    /\ waiting = [ c \in Callers |-> "idle" ]
    /\ config = NoConfig
    /\ options = NotLoaded
    /\ rows = [ p \in StoredPeers |-> {} ]
    /\ listing = NotListed
    /\ NothingElse

(* ------------------------------- actions ------------------------------ *)

\* No caller is queued for the state lock.
NoneAwaiting == queue = << >>

\* The entries of the queue of the state lock.
WriterAt(c) == [ lock |-> "write", caller |-> c ]

ReaderAt(r) == [ lock |-> "read", caller |-> r ]

\* The queue without caller c.
Leave(waiters, entry) == SelectSeq(waiters, LAMBDA w : w # entry)

WriteLockFree_IgnoresReaders == lock = "free" /\ NoneAwaiting

WriteLockFree_Reentrant ==
    /\ lock \in {"free", "reentered"}
    /\ \A r \in Readers : readers[r].status = "idle"
    /\ NoneAwaiting

\* self.state.write().await returns at once: no writer and no reader holds
\* the lock and no caller is queued for it.
WriteLockFree ==
    /\ lock = "free"
    /\ \A r \in Readers : readers[r].status = "idle"
    /\ NoneAwaiting

Finish_KeepsWorkingCopy(op, k, id, value, t, subs, closureOk, commitOk) ==
    LET end == EndTransaction(store, t, closureOk, commitOk)
    IN  /\ store' = t.work
        /\ subscribers' = IF end.outer = "Ok"
                          THEN SendRelayedSubscriptionEvents(end.relayed, subs)
                          ELSE subs
        /\ published' = Recorded(published, t.performed,
                                 IF end.outer = "Ok" THEN end.relayed ELSE EmptyRelay)
        /\ last' = Completed(op, k, id, value,
                             IF end.outer = "Ok" /\ ~AllNotified(end.relayed, subs)
                             THEN [ end EXCEPT !.outer = "Panic" ] ELSE end,
                             t)

Finish_SendsUncommitted(op, k, id, value, t, subs, closureOk, commitOk) ==
    LET end == EndTransaction(store, t, closureOk, commitOk)
    IN  /\ store' = end.storage
        /\ subscribers' = IF end.outer = "Ok"
                          THEN SendRelayedSubscriptionEvents(t.relay, subs)
                          ELSE subs
        /\ published' = Recorded(published, t.performed,
                                 IF end.outer = "Ok" THEN t.relay ELSE EmptyRelay)
        /\ last' = Completed(op, k, id, value,
                             IF end.outer = "Ok" /\ ~AllNotified(t.relay, subs)
                             THEN [ end EXCEPT !.outer = "Panic" ] ELSE end,
                             t)

\* The end of insert, remove and resources_mut: `transaction(..)?` returns
\* early on the outer error; otherwise the relayed events are sent, and the
\* call panics if a notify fails.
Finish(op, k, id, value, t, subs, closureOk, commitOk) ==
    LET end == EndTransaction(store, t, closureOk, commitOk)
    IN  /\ store' = end.storage
        /\ subscribers' = IF end.outer = "Ok"
                          THEN SendRelayedSubscriptionEvents(end.relayed, subs)
                          ELSE subs
        /\ published' = Recorded(published, t.performed,
                                 IF end.outer = "Ok" THEN end.relayed ELSE EmptyRelay)
        /\ last' = Completed(op, k, id, value,
                             IF end.outer = "Ok" /\ ~AllNotified(end.relayed, subs)
                             THEN [ end EXCEPT !.outer = "Panic" ] ELSE end,
                             t)

\* ResourcesManager::insert
Insert(k, id, v) ==
    /\ WriteLockFree
    /\ LET t == TransactionInsert(backend, BeginTransaction(store, subscribers), k, id, v)
       IN  \E commitOk \in CommitOutcomes(backend) :
             Finish("insert", k, id, {v}, t, ResetNotified(subscribers),
                    t.performed[1].ok, commitOk)
    /\ ops' = ops + 1
    /\ UNCHANGED << outside, queue, startup, database, waiting, backend, scope, readers, lock, tx >>

\* ResourcesManager::remove
Remove(k, id) ==
    /\ WriteLockFree
    /\ LET t == TransactionRemove(backend, BeginTransaction(store, subscribers), k, id)
       IN  \E commitOk \in CommitOutcomes(backend) :
             Finish("remove", k, id, {}, t, ResetNotified(subscribers),
                    t.performed[1].ok, commitOk)
    /\ ops' = ops + 1
    /\ UNCHANGED << outside, queue, startup, database, waiting, backend, scope, readers, lock, tx >>

\* ResourcesManager::resources_mut, up to the call of the closure: the writer
\* lock is taken and the transaction begun.
ResourcesMutBegin ==
    /\ WriteLockFree
    /\ lock' = "writer"
    /\ tx' = BeginTransaction(store, subscribers)
    /\ subscribers' = ResetNotified(subscribers)
    /\ UNCHANGED << elsewhere, startup, database, waiting, backend, scope, readers, store, ops, last >>

TxInsert_WritesThrough(k, id, v) ==
    /\ lock = "writer"
    /\ tx' = TransactionInsert(backend, tx, k, id, v)
    /\ store' = tx'.work
    /\ ops' = ops + 1
    /\ UNCHANGED << elsewhere, startup, database, waiting, backend, scope, readers, subscribers, lock, last >>

TxInsert_NotifiesLive(k, id, v) ==
    /\ lock = "writer"
    /\ tx' = TransactionInsert(backend, tx, k, id, v)
    /\ subscribers' = IF tx'.performed[Len(tx'.performed)].ok
                      THEN Notify(subscribers, Inserted(k, id, v))
                      ELSE subscribers
    /\ ops' = ops + 1
    /\ UNCHANGED << elsewhere, startup, database, waiting, backend, scope, readers, store, lock, last >>

\* The closure of a resources_mut calls ResourcesTransaction::insert.
TxInsert(k, id, v) ==
    /\ lock = "writer"
    /\ tx' = TransactionInsert(backend, tx, k, id, v)
    /\ ops' = ops + 1
    /\ UNCHANGED << elsewhere, startup, database, waiting, backend, scope, readers, store, subscribers, lock, last >>

\* The closure of a resources_mut calls ResourcesTransaction::remove.
TxRemove(k, id) ==
    /\ lock = "writer"
    /\ tx' = TransactionRemove(backend, tx, k, id)
    /\ ops' = ops + 1
    /\ UNCHANGED << elsewhere, startup, database, waiting, backend, scope, readers, store, subscribers, lock, last >>

\* ResourcesManager::resources_mut, from the return of the closure on.
ResourcesMutReturn(closureOk) ==
    /\ lock = "writer"
    /\ \E commitOk \in CommitOutcomes(backend) :
         Finish("resources_mut", "ClusterConfiguration", 1, {}, tx, subscribers,
                closureOk, commitOk)
    /\ lock' = "free"
    /\ tx' = NoTransaction
    /\ UNCHANGED << outside, queue, startup, database, waiting, backend, scope, readers, ops >>

\* The closure returns Ok.
ResourcesMutReturnOk == ResourcesMutReturn(TRUE)

\* The closure returns Err: its own error, or the error of a storage operation.
ResourcesMutReturnErr == ResourcesMutReturn(FALSE)

\* ResourcesManager::subscribe: a fresh receiver of the live channel of kind k.
Subscribe(s, k) ==
    /\ WriteLockFree
    /\ subscribers[s].status = "none"
    /\ subscribers' = [ subscribers EXCEPT ![s] =
                          [ status |-> "active", kind |-> k, inbox |-> EmptyChannel,
                            notified |-> <<>> ] ]
    /\ UNCHANGED << elsewhere, startup, database, waiting, backend, scope, readers, store, lock, tx, ops, last >>

\* The holder of a Subscription drops it.
DropSubscription(s) ==
    /\ subscribers[s].status = "active"
    /\ subscribers' = [ subscribers EXCEPT ![s] = [ NoSubscriber EXCEPT !.status = "dropped" ] ]
    /\ UNCHANGED << elsewhere, startup, database, waiting, backend, scope, readers, store, lock, tx, ops, last >>

ResourcesBegin_IgnoresWriter(r) ==
    /\ NoneAwaiting
    /\ readers[r].status = "idle"
    /\ readers' = [ readers EXCEPT ![r] = [ status |-> "reading", from |-> store, seen |-> {} ] ]
    /\ UNCHANGED << elsewhere, startup, database, waiting, backend, scope, store, subscribers, lock, tx, ops, last >>

ResourcesBegin_PassesTheQueue(r) ==
    /\ lock = "free"
    /\ readers[r].status = "idle"
    /\ readers' = [ readers EXCEPT ![r] = [ status |-> "reading", from |-> store, seen |-> {} ] ]
    /\ UNCHANGED << elsewhere, startup, database, waiting, backend, scope, store, subscribers, lock, tx, ops, last >>

\* ResourcesManager::get, list, resources: self.state.read().await returns,
\* which it does while no writer holds the lock and no caller is queued for it.
ResourcesBegin(r) ==
    /\ lock = "free"
    /\ NoneAwaiting
    /\ readers[r].status = "idle"
    /\ readers' = [ readers EXCEPT ![r] = [ status |-> "reading", from |-> store, seen |-> {} ] ]
    /\ UNCHANGED << elsewhere, startup, database, waiting, backend, scope, store, subscribers, lock, tx, ops, last >>

\* A query of the read callback: state.resources.get(id), or the entry of id
\* in state.resources.list().
ResourcesQuery(r, k, id) ==
    /\ readers[r].status = "reading"
    /\ readers' = [ readers EXCEPT ![r].seen =
                      { [ kind |-> k, id |-> id, value |-> StorageGet(backend, store, k, id),
                          listed |-> { e.value : e \in { x \in StorageList(backend, store, k) :
                                                           x.id = id } } ] } ]
    /\ UNCHANGED << elsewhere, startup, database, waiting, backend, scope, store, subscribers, lock, tx, ops, last >>

\* The read callback returns and the read lock is released.
ResourcesReturn(r) ==
    /\ readers[r].status = "reading"
    /\ readers' = [ readers EXCEPT ![r] = NoReader ]
    /\ UNCHANGED << elsewhere, startup, database, waiting, backend, scope, store, subscribers, lock, tx, ops, last >>

\* A caller of insert, remove, resources_mut or subscribe finds the lock
\* taken: its self.state.write().await is pending.
AwaitWrite(c) ==
    /\ waiting[c] = "idle"
    /\ ~WriteLockFree
    /\ waiting' = [ waiting EXCEPT ![c] = "awaiting" ]
    /\ queue' = Append(queue, WriterAt(c))
    /\ UNCHANGED << outside, published, startup, database, backend, scope, store, subscribers, lock, tx, ops,
                    last, readers >>

CancelAwait_MidFlight(c) ==
    /\ waiting[c] = "idle"
    /\ lock = "writer"
    /\ waiting' = [ waiting EXCEPT ![c] = "cancelled" ]
    /\ store' = tx.work
    /\ lock' = "free"
    /\ tx' = NoTransaction
    /\ UNCHANGED << elsewhere, startup, database, backend, scope, subscribers, ops, last, readers >>

\* The task of a caller is cancelled: its future is dropped where it is
\* suspended, at self.state.write().await, the one place where insert,
\* remove, resources_mut and subscribe can be: the transaction and the
\* sending of the events have no place to suspend at.
CancelAwait(c) ==
    /\ waiting[c] = "awaiting"
    /\ waiting' = [ waiting EXCEPT ![c] = "cancelled" ]
    /\ queue' = Leave(queue, WriterAt(c))
    /\ UNCHANGED << outside, published, startup, database, backend, scope, store, subscribers, lock, tx, ops,
                    last, readers >>

\* The pending self.state.write().await of a resources_mut returns: the
\* writer lock is taken and the transaction begun.
AwaitedResourcesMutBegin(c) ==
    /\ waiting[c] = "awaiting"
    /\ queue # << >> /\ Head(queue) = WriterAt(c)
    /\ lock = "free"
    /\ \A r \in Readers : readers[r].status \in {"idle", "awaiting_read"}
    /\ waiting' = [ waiting EXCEPT ![c] = "idle" ]
    /\ queue' = Tail(queue)
    /\ lock' = "writer"
    /\ tx' = BeginTransaction(store, subscribers)
    /\ subscribers' = ResetNotified(subscribers)
    /\ UNCHANGED << outside, published, startup, database, backend, scope, readers, store, ops, last >>

\* What a resources_mut whose closure panicked leaves behind.
Panicked == [ committed |-> FALSE, outer |-> "Panic", inner |-> "Panic" ]

ResourcesMutPanic_KeepsWork ==
    /\ lock = "writer"
    /\ lock' = "free"
    /\ store' = tx.work
    /\ tx' = NoTransaction
    /\ last' = Completed("resources_mut", "ClusterConfiguration", 1, {}, Panicked, tx)
    /\ UNCHANGED << elsewhere, startup, database, waiting, backend, scope, readers, subscribers, ops >>

\* The closure of a resources_mut panics: the unwinding drops the
\* transaction with its relay buffer, uncommitted, and the write guard, and
\* neither the commit nor the sending of events is reached.
ResourcesMutPanic ==
    /\ lock = "writer"
    /\ lock' = "free"
    /\ tx' = NoTransaction
    /\ last' = Completed("resources_mut", "ClusterConfiguration", 1, {}, Panicked, tx)
    /\ UNCHANGED << elsewhere, startup, database, waiting, backend, scope, readers, store,
                    subscribers, ops >>

\* The closure of a resources_mut calls a method of the same manager and
\* waits for it: the closure stands still under the writer lock it holds.
ClosureReenters ==
    /\ lock = "writer"
    /\ lock' = "reentered"
    /\ UNCHANGED << elsewhere, startup, database, waiting, backend, scope, readers, store,
                    subscribers, tx, ops, last >>

\* A read callback calls a writer operation of the same manager and waits
\* for it, holding its read lock.
ReaderAwaitsWrite(r) ==
    /\ readers[r].status = "reading"
    /\ readers' = [ readers EXCEPT ![r].status = "awaiting_write" ]
    /\ UNCHANGED << elsewhere, startup, database, waiting, backend, scope, store, subscribers,
                    lock, tx, ops, last >>

\* A caller of insert finds the lock taken: its self.state.write().await
\* is pending. The storage operation it will perform is counted in.
PendingInserts == Cardinality({ c \in Callers : waiting[c] = "awaiting_insert" })

AwaitInsert(c) ==
    /\ waiting[c] = "idle"
    /\ ~WriteLockFree
    /\ ops + PendingInserts < MaxFairOps
    /\ waiting' = [ waiting EXCEPT ![c] = "awaiting_insert" ]
    /\ queue' = Append(queue, WriterAt(c))
    /\ UNCHANGED << outside, published, startup, database, backend, scope, store, subscribers, lock, tx, ops,
                    last, readers >>

\* The pending self.state.write().await of an insert returns, and the insert
\* runs to its end: the transaction and the sending of the events have no
\* place to suspend at.
AwaitedInsert(c, k, id, v) ==
    /\ waiting[c] = "awaiting_insert"
    /\ queue # << >> /\ Head(queue) = WriterAt(c)
    /\ lock = "free"
    /\ \A r \in Readers : readers[r].status \in {"idle", "awaiting_read"}
    /\ waiting' = [ waiting EXCEPT ![c] = "idle" ]
    /\ queue' = Tail(queue)
    /\ LET t == TransactionInsert(backend, BeginTransaction(store, subscribers), k, id, v)
       IN  \E commitOk \in CommitOutcomes(backend) :
             Finish("insert", k, id, {v}, t, ResetNotified(subscribers),
                    t.performed[1].ok, commitOk)
    /\ ops' = ops + 1
    /\ UNCHANGED << outside, published, startup, database, backend, scope, readers, lock, tx >>

\* A caller of get, list or resources finds a writer holding the lock or a
\* caller queued for it: its self.state.read().await is pending.
AwaitRead(r) ==
    /\ readers[r].status = "idle"
    /\ ~(lock = "free" /\ NoneAwaiting)
    /\ readers' = [ readers EXCEPT ![r].status = "awaiting_read" ]
    /\ queue' = Append(queue, ReaderAt(r))
    /\ UNCHANGED << outside, published, startup, database, waiting, backend, scope, store, subscribers,
                    lock, tx, ops, last >>

\* The pending self.state.read().await returns: the caller is first in the
\* queue and no writer holds the lock.
AwaitedResourcesBegin(r) ==
    /\ readers[r].status = "awaiting_read"
    /\ queue # << >> /\ Head(queue) = ReaderAt(r)
    /\ lock = "free"
    /\ readers' = [ readers EXCEPT ![r] = [ status |-> "reading", from |-> store, seen |-> {} ] ]
    /\ queue' = Tail(queue)
    /\ UNCHANGED << outside, published, startup, database, waiting, backend, scope, store, subscribers,
                    lock, tx, ops, last >>

\* PersistenceOptions::load is called on the configuration.
Load ==
    /\ options = NotLoaded
    /\ options' = PersistenceOptionsLoad(config)
    /\ UNCHANGED << elsewhere, database, waiting, config, backend, scope, store, subscribers,
                    lock, tx, ops, last, readers >>

\* ResourcesStorage::connect is called on the options that were loaded.
Connect ==
    /\ options.tag \in {"Enabled", "Disabled"}
    /\ backend = "Unconnected"
    /\ \E reachable \in BOOLEAN :
         LET connected == StorageConnect(options, reachable)
         IN  backend' = IF connected.tag = "Ok" THEN connected.storage ELSE "ConnectionError"
    /\ UNCHANGED << elsewhere, startup, database, waiting, scope, store, subscribers, lock, tx,
                    ops, last, readers >>

\* ResourcesManager::create is called with the options that were loaded:
\* `Resources::connect(storage_options).await?` returns early with the
\* connection error; otherwise the manager holds the storage and
\* ResourceSubscriptionChannels::default().
Create ==
    /\ options.tag \in {"Enabled", "Disabled"}
    /\ created = NotCreated
    /\ backend = "Unconnected"
    /\ \E reachable \in BOOLEAN :
         LET connected == StorageConnect(options, reachable)
         IN  IF connected.tag = "Ok"
             THEN /\ backend' = connected.storage
                  /\ store' = EmptyStorage
                  /\ subscribers' = [ s \in Subs |-> NoSubscriber ]
                  /\ lock' = "free"
                  /\ created' = [ tag |-> "Ok" ]
             ELSE /\ created' = connected
                  /\ UNCHANGED << backend, store, subscribers, lock >>
    /\ UNCHANGED << queue, published, files, task, inserting, deletion, startup, database,
                    waiting, scope, tx, ops,
                    last, readers >>

\* query::peer_descriptor::list is called with Filter::By of a peer id or
\* without a filter (ids), and the query returns the rows in some order.
ListRows(ids) ==
    /\ \E order \in RowOrders({ p \in ids : rows[p] # {} }) :
         listing' = [ filter |-> ids, returned |-> PeerDescriptorListRows(rows, order) ]
    /\ UNCHANGED << elsewhere, startup, waiting, rows, backend, scope, store, subscribers, lock, tx,
                    ops, last, readers >>

\* query::peer_descriptor::remove is called for a peer id: the list by id
\* returns the row, if any, and the delete succeeds or fails.
RemoveRows(id) ==
    /\ \E order \in RowOrders({ p \in {id} : rows[p] # {} }), deleteOk \in BOOLEAN :
         LET removed == PeerDescriptorRemoveRows(rows, store.network_interface_descriptor,
                                                 id, order, deleteOk)
         IN  /\ rows' = removed.rows
             /\ store' = [ store EXCEPT !.network_interface_descriptor = removed.children ]
             /\ listing' = [ filter |-> {id}, returned |-> removed.returned ]
    /\ UNCHANGED << elsewhere, startup, waiting, backend, scope, subscribers, lock, tx, ops, last,
                    readers >>

(* ---------------------------- specifications -------------------------- *)

\* Callers that use the kinds in scope and perform at most MaxOps storage
\* operations, alone or grouped in resources_mut closures.
Next ==
    \/ \E k \in scope, id \in Ids : \E v \in ValuesOf(k) : ops < MaxOps /\ Insert(k, id, v)
    \/ \E k \in scope, id \in Ids : ops < MaxOps /\ Remove(k, id)
    \/ ResourcesMutBegin
    \/ \E k \in scope, id \in Ids : \E v \in ValuesOf(k) : ops < MaxOps /\ TxInsert(k, id, v)
    \/ \E k \in scope, id \in Ids : ops < MaxOps /\ TxRemove(k, id)
    \/ ResourcesMutReturnOk
    \/ ResourcesMutReturnErr
    \/ \E s \in 1..SoloSubscribers, k \in scope : Subscribe(s, k)
    \/ \E s \in Subs : DropSubscription(s)

Spec == Init /\ [][Next]_vars

\* Callers that subscribe and run one resources_mut closure of up to one
\* more insert than a channel holds.
BurstNext ==
    \/ \E s \in 1..SoloSubscribers, k \in scope : Subscribe(s, k)
    \/ \E s \in Subs : DropSubscription(s)
    \/ ops = 0 /\ ResourcesMutBegin
    \/ \E k \in scope, id \in Ids : \E v \in ValuesOf(k) :
         ops < ChannelCapacity + 1 /\ TxInsert(k, id, v)
    \/ ResourcesMutReturnOk
    \/ ResourcesMutReturnErr

SpecBurst == Init /\ [][BurstNext]_vars

\* Callers that use every subscriber slot and call insert and remove up to
\* MaxFanOutOps times.
FanOutNext ==
    \/ \E s \in Subs, k \in scope : Subscribe(s, k)
    \/ \E s \in Subs : DropSubscription(s)
    \/ \E k \in scope, id \in Ids : \E v \in ValuesOf(k) :
         ops < MaxFanOutOps /\ Insert(k, id, v)
    \/ \E k \in scope, id \in Ids : ops < MaxFanOutOps /\ Remove(k, id)

SpecFanOut == Init /\ [][FanOutNext]_vars

\* Readers next to writers that perform up to MaxReaderOps storage
\* operations.
ReadersNext ==
    \/ \E r \in Readers : ResourcesBegin(r)
    \/ \E r \in Readers, k \in scope, id \in Ids : ResourcesQuery(r, k, id)
    \/ \E r \in Readers : ResourcesReturn(r)
    \/ \E k \in scope, id \in Ids : \E v \in ValuesOf(k) :
         ops < MaxReaderOps /\ Insert(k, id, v)
    \/ \E k \in scope, id \in Ids : ops < MaxReaderOps /\ Remove(k, id)
    \/ ResourcesMutBegin
    \/ \E k \in scope, id \in Ids : \E v \in ValuesOf(k) :
         ops < MaxReaderOps /\ TxInsert(k, id, v)
    \/ \E k \in scope, id \in Ids : ops < MaxReaderOps /\ TxRemove(k, id)
    \/ ResourcesMutReturnOk
    \/ ResourcesMutReturnErr
    \/ \E s \in 1..SoloSubscribers, k \in scope : Subscribe(s, k)
    \/ \E s \in Subs : DropSubscription(s)

SpecReaders == Init /\ [][ReadersNext]_vars

\* Callers of which some wait for the writer lock and are cancelled or
\* served, closures that panic or call back into the manager, and read
\* callbacks that wait for a writer operation.
CallersNext ==
    \/ \E c \in 1..SoloCallers : AwaitWrite(c)
    \/ \E c \in 1..SoloCallers : CancelAwait(c)
    \/ \E c \in 1..SoloCallers : AwaitedResourcesMutBegin(c)
    \/ ResourcesMutBegin
    \/ \E k \in scope, id \in Ids : \E v \in ValuesOf(k) :
         ops < MaxCallerOps /\ TxInsert(k, id, v)
    \/ ResourcesMutReturnOk
    \/ ResourcesMutReturnErr
    \/ ResourcesMutPanic
    \/ ClosureReenters
    \/ \E k \in scope, id \in Ids : \E v \in ValuesOf(k) :
         ops < MaxCallerOps /\ Insert(k, id, v)
    \/ \E s \in 1..SoloSubscribers, k \in scope : Subscribe(s, k)
    \/ \E r \in 1..SoloReaders : ResourcesBegin(r)
    \/ \E r \in 1..SoloReaders : ResourcesReturn(r)
    \/ \E r \in 1..SoloReaders : ReaderAwaitsWrite(r)

SpecCallers == Init /\ [][CallersNext]_vars

\* The start-up: a configuration is loaded and the storage connected.
InitStartup ==
    /\ backend = "Unconnected"
    /\ scope = {}
    /\ store = EmptyStorage
    /\ subscribers = [ s \in Subs |-> NoSubscriber ]
    /\ lock = "free"
    /\ tx = NoTransaction
    /\ ops = 0
    /\ last = NoCall
    /\ readers = [ r \in Readers |-> NoReader ]
    /\ waiting = [ c \in Callers |-> "idle" ]
    /\ config \in Configs
    /\ options = NotLoaded
    /\ rows = [ p \in StoredPeers |-> {} ]
    /\ listing = NotListed
    /\ NothingElse

StartupNext ==
    \/ Load
    \/ Connect

SpecStartup == InitStartup /\ [][StartupNext]_vars

\* The relational backend over a database that holds any rows, read back.
InitDatabase ==
    /\ backend = "Persistent"
    /\ scope = {"PeerDescriptor"}
    /\ store = EmptyStorage
    /\ subscribers = [ s \in Subs |-> NoSubscriber ]
    /\ lock = "free"
    /\ tx = NoTransaction
    /\ ops = 0
    /\ last = NoCall
    /\ readers = [ r \in Readers |-> NoReader ]
    /\ waiting = [ c \in Callers |-> "idle" ]
    /\ config = NoConfig
    /\ options = NotLoaded
    /\ rows \in StoredRows
    /\ listing = NotListed
    /\ NothingElse

DatabaseNext ==
    \E ids \in { StoredPeers } \cup { {p} : p \in StoredPeers } : ListRows(ids)

SpecDatabase == InitDatabase /\ [][DatabaseNext]_vars

\* The relational backend over a database that holds any rows and any
\* network interface rows of them, from which peers are removed.
InitStored ==
    /\ backend = "Persistent"
    /\ scope = {"PeerDescriptor"}
    /\ rows \in StoredRows
    /\ \E children \in StoredChildren(rows) :
         store = [ EmptyStorage EXCEPT !.network_interface_descriptor = children ]
    /\ subscribers = [ s \in Subs |-> NoSubscriber ]
    /\ lock = "free"
    /\ tx = NoTransaction
    /\ ops = 0
    /\ last = NoCall
    /\ readers = [ r \in Readers |-> NoReader ]
    /\ waiting = [ c \in Callers |-> "idle" ]
    /\ config = NoConfig
    /\ options = NotLoaded
    /\ listing = NotListed
    /\ NothingElse

StoredNext ==
    \E id \in StoredPeers : RemoveRows(id)

SpecStored == InitStored /\ [][StoredNext]_vars

(* --------------------------- reading the state ------------------------ *)

\* ResourcesManager::get
ManagerGet(k, id) == StorageGet(backend, store, k, id)

\* ResourcesManager::list
ManagerList(k) == StorageList(backend, store, k)

\* The steps of the manager's calls, told by what they change.
InsertStep == lock = "free" /\ lock' = "free" /\ ops' = ops + 1 /\ last'.op = "insert"
RemoveStep == lock = "free" /\ lock' = "free" /\ ops' = ops + 1 /\ last'.op = "remove"
ClosureStep == lock = "writer" /\ lock' = "writer" /\ ops' = ops + 1
ReturnStep == lock = "writer" /\ lock' = "free"

Succeeded(call) == call.outer = "Ok" /\ call.inner = "Ok"

\* The subscribers of kind k that were live when the open transaction began
\* and still are.
LiveSince(t, k) ==
    { s \in t.live : subscribers[s].status = "active" /\ subscribers[s].kind = k }

\* The successful operations of a closure on kind k, in the order performed.
MutationsOf(performed, k) == SelectSeq(performed, LAMBDA p : p.ok /\ p.kind = k)

\* The events the successful inserts of a closure on kind k call for.
InsertedEventsOf(performed, k) ==
    LET sel == SelectSeq(performed, LAMBDA p : p.ok /\ p.kind = k /\ p.op = "insert")
    IN  [ i \in 1..Len(sel) |-> Inserted(k, sel[i].id, TheOne(sel[i].value)) ]

\* The events the successful removes of existing entities call for.
RemovedEventsOf(performed, k) ==
    LET sel == SelectSeq(performed, LAMBDA p : p.ok /\ p.kind = k /\ p.op = "remove"
                                                /\ p.returned # {})
    IN  [ i \in 1..Len(sel) |-> Removed(k, sel[i].id, TheOne(sel[i].returned)) ]

\* The latest successful operation of a closure on (k, id), if any.
LatestOn(performed, k, id) ==
    LET at == { i \in 1..Len(performed) :
                  performed[i].ok /\ performed[i].kind = k /\ performed[i].id = id }
    IN  IF at = {} THEN {} ELSE { performed[CHOOSE i \in at : \A j \in at : j <= i] }

(* -------------------------------- claims ------------------------------ *)

\* C1: when the closure of a resources_mut performs one or more successful
\* inserts and returns Err, the store after the call is the store before it;
\* get returns None for every id that was absent before and inserted inside.
C1_RollbackRestoresStore ==
    [][ (ReturnStep /\ last'.inner = "Err" /\ \E k \in Kinds : last'.inserted[k] > 0)
        => /\ store' = tx.before
           /\ \A k \in Kinds, id \in Ids :
                ( /\ StorageGet(backend, tx.before, k, id) = {}
                  /\ \E i \in 1..Len(tx.performed) :
                       /\ tx.performed[i].ok /\ tx.performed[i].op = "insert"
                       /\ tx.performed[i].kind = k /\ tx.performed[i].id = id )
                => ManagerGet(k, id)' = {} ]_vars

\* A relational transaction that inserted and then failed on a foreign key
\* was rolled back to the empty store.
C1_Witness ==
    /\ lock = "free" /\ backend = "Persistent"
    /\ last.op = "resources_mut" /\ last.inner = "Err" /\ last.outer = "Ok"
    /\ last.failures > 0
    /\ \E k \in Kinds : last.inserted[k] > 0
    /\ store = EmptyStorage

\* C2: when the closure performs successful inserts and returns Err, no
\* subscriber is sent any of the queued events: nothing was sent while the
\* transaction was open, nothing is sent when it returns, and the relay buffer
\* is gone.
C2_NoEventOnRollback ==
    [][ (ReturnStep /\ last'.inner = "Err" /\ \E k \in Kinds : last'.inserted[k] > 0)
        => /\ \A s \in Subs : /\ subscribers'[s].notified = <<>>
                              /\ subscribers'[s].inbox = subscribers[s].inbox
           /\ tx'.relay = EmptyRelay ]_vars

\* A live subscriber of a kind that an aborted closure inserted into.
C2_Witness ==
    /\ lock = "free"
    /\ last.op = "resources_mut" /\ last.inner = "Err"
    /\ \E s \in last.live :
         /\ subscribers[s].status = "active"
         /\ last.inserted[subscribers[s].kind] > 0

\* C3: every subscriber of kind R that was live before a committed transaction
\* and still is has been sent as many events as the transaction performed
\* successful mutations of kind R, however many these are.
C3_CommitPublishesEveryEvent ==
    [][ (ReturnStep /\ last'.committed)
        => \A k \in Kinds : \A s \in LiveSince(tx, k) :
             Len(subscribers'[s].notified) = Len(MutationsOf(tx.performed, k)) ]_vars

\* C4: a successful remove of an existing entity of kind R sends Removed, with
\* the id and the removed value, once to every live subscriber of R, whether
\* the remove is the manager's or one of a committed closure.
C4_RemovePublishesRemoved ==
    [][ /\ (RemoveStep /\ Succeeded(last') /\ last'.returned # {})
           => \A s \in Subs :
                (subscribers[s].status = "active" /\ subscribers[s].kind = last'.kind)
                => subscribers'[s].notified =
                     << Removed(last'.kind, last'.id, TheOne(last'.returned)) >>
        /\ (ReturnStep /\ last'.committed)
           => \A k \in Kinds : \A s \in LiveSince(tx, k) :
                SelectSeq(subscribers'[s].notified, LAMBDA e : e.type = "Removed")
                  = RemovedEventsOf(tx.performed, k) ]_vars

\* C5: a committed closure whose operations on kind R are up to three
\* successful inserts has every live subscriber of R sent exactly their
\* Inserted events, in the order of the inserts, and nothing else.
C5_OrderPreserved ==
    [][ (ReturnStep /\ last'.committed)
        => \A k \in Kinds : \A s \in LiveSince(tx, k) :
             ( /\ \A i \in 1..Len(tx.performed) :
                    tx.performed[i].kind = k
                    => tx.performed[i].op = "insert" /\ tx.performed[i].ok
               /\ InsertedOf(tx.performed, k) <= 3 )
             => subscribers'[s].notified = InsertedEventsOf(tx.performed, k) ]_vars

\* A live subscriber was sent the three events of a committed closure, not
\* all of them the same.
C5_Witness ==
    /\ lock = "free"
    /\ last.op = "resources_mut" /\ last.committed
    /\ \E s \in last.live :
         /\ subscribers[s].status = "active"
         /\ last.inserted[subscribers[s].kind] = 3
         /\ Len(subscribers[s].notified) = 3
         /\ subscribers[s].notified[1] # subscribers[s].notified[3]

\* C6: after insert(id, v1) followed by insert(id, v2), get(id) returns v2 and
\* list holds v2 under id and nothing else under it.
C6_ReinsertReplacesValue ==
    [][ ( /\ last.op = "insert" /\ Succeeded(last)
          /\ InsertStep /\ Succeeded(last')
          /\ last'.kind = last.kind /\ last'.id = last.id )
        => /\ ManagerGet(last.kind, last.id)' = last'.value
           /\ { e \in ManagerList(last.kind)' : e.id = last.id }
                = { [ id |-> last.id, value |-> TheOne(last'.value) ] } ]_vars

\* C7: insert(id, v); insert(id, v) leaves get(id) = Some(v), one entity under
\* id, and each of the two inserts sends one Inserted to a subscriber that was
\* registered before them.
C7_UpsertIdempotent ==
    [][ ( /\ last.op = "insert" /\ Succeeded(last)
          /\ InsertStep /\ Succeeded(last')
          /\ last'.kind = last.kind /\ last'.id = last.id /\ last'.value = last.value )
        => /\ ManagerGet(last.kind, last.id)' = last.value
           /\ Cardinality({ e \in ManagerList(last.kind)' : e.id = last.id }) = 1
           /\ \A s \in last.live :
                (subscribers[s].status = "active" /\ subscribers[s].kind = last.kind)
                => LET event == Inserted(last.kind, last.id, TheOne(last.value))
                   IN  /\ subscribers[s].notified = << event >>
                       /\ subscribers'[s].notified = << event >> ]_vars

\* C8: after insert(id, v), remove(id) returns Some(v) and get(id) returns
\* None; an insert(id, v) after the remove makes get(id) return Some(v).
C8_InsertRemoveRoundTrip ==
    [][ /\ ( /\ last.op = "insert" /\ Succeeded(last)
             /\ RemoveStep /\ Succeeded(last')
             /\ last'.kind = last.kind /\ last'.id = last.id )
           => /\ last'.returned = last.value
              /\ ManagerGet(last.kind, last.id)' = {}
        /\ ( /\ last.op = "remove" /\ Succeeded(last)
             /\ InsertStep /\ Succeeded(last')
             /\ last'.kind = last.kind /\ last'.id = last.id )
           => ManagerGet(last.kind, last.id)' = last'.value ]_vars

C10_ReadYourWrites ==
    lock = "writer"
    => \A k \in Kinds, id \in Ids :
         \A p \in LatestOn(tx.performed, k, id) :
           IF p.op = "insert"
           THEN /\ TransactionGet(backend, tx, k, id) = p.value
                /\ { e \in TransactionList(backend, tx, k) : e.id = id }
                     = { [ id |-> id, value |-> TheOne(p.value) ] }
           ELSE /\ TransactionGet(backend, tx, k, id) = {}
                /\ { e \in TransactionList(backend, tx, k) : e.id = id } = {}

\* C11: resources_mut returns Ok(Err(e)) when its closure returns Err(e), the
\* error being the closure's own or the one a storage operation gave it, and
\* nothing is committed; Ok(Ok(t)) exactly when the closure returned Ok(t)
\* and the commit succeeded; and an outer Err only when the closure returned
\* Ok and the commit failed. (inner records what the closure returned.)
C11_ResultNesting ==
    [][ ReturnStep
        => /\ last'.op = "resources_mut"
           /\ last'.inner = "Err"
              => /\ last'.outer = "Ok" /\ ~last'.committed
                 /\ last'.failures = FailedIn(tx.performed)
           /\ last'.committed <=> (last'.outer = "Ok" /\ last'.inner = "Ok")
           /\ last'.outer # "Ok"
              => /\ last'.outer = "Err" /\ last'.inner = "Ok"
                 /\ backend = "Persistent" ]_vars

\* A closure on the volatile backend inserted and returned an error of its
\* own: the call returned Ok(Err(e)).
C11_Witness ==
    /\ lock = "free" /\ backend = "Volatile"
    /\ last.op = "resources_mut"
    /\ last.outer = "Ok" /\ last.inner = "Err"
    /\ last.failures = 0
    /\ \E k \in Kinds : last.inserted[k] > 0

\* The events the successful mutations of a closure on kind k call for, in
\* the order performed: Inserted for an insert, Removed for the remove of an
\* existing entity.
EventsOf(performed, k) ==
    LET sel == SelectSeq(performed, LAMBDA p : /\ p.ok /\ p.kind = k
                                                /\ (p.op = "remove" => p.returned # {}))
    IN  [ i \in 1..Len(sel) |->
            IF sel[i].op = "insert"
            THEN Inserted(k, sel[i].id, TheOne(sel[i].value))
            ELSE Removed(k, sel[i].id, TheOne(sel[i].returned)) ]

\* C12: a subscriber of kind R whose subscribe returned before a transaction
\* started is sent all events of kind R of the transaction when it commits; a
\* subscriber that was not live when it started is sent none of them; and a
\* subscribe completes only while no transaction is open, with an empty
\* channel.
C12_CommitOnlyVisibility ==
    [][ /\ (ReturnStep /\ last'.committed)
           => /\ \A k \in Kinds : \A s \in LiveSince(tx, k) :
                   subscribers'[s].notified = EventsOf(tx.performed, k)
              /\ \A s \in Subs \ tx.live :
                   /\ subscribers'[s].notified = <<>>
                   /\ subscribers'[s].inbox = subscribers[s].inbox
        /\ \A s \in Subs :
             (subscribers[s].status = "none" /\ subscribers'[s].status = "active")
             => /\ lock = "free" /\ lock' = "free"
                /\ subscribers'[s].inbox = EmptyChannel
                /\ subscribers'[s].notified = <<>> ]_vars

\* C13: one committed insert<R>(id, v) sends every live subscriber of R one
\* Inserted event of that id and value, which is the newest event of its
\* channel; subscribers of other kinds are sent nothing.
C13_FanOut ==
    [][ (InsertStep /\ Succeeded(last'))
        => \A s \in Subs :
             IF subscribers[s].status = "active" /\ subscribers[s].kind = last'.kind
             THEN LET event == Inserted(last'.kind, last'.id, TheOne(last'.value))
                      buf == subscribers'[s].inbox.buf
                  IN  /\ subscribers'[s].notified = << event >>
                      /\ buf # <<>> /\ buf[Len(buf)] = event
                      /\ Len(buf) = IF Len(subscribers[s].inbox.buf) < ChannelCapacity
                                    THEN Len(subscribers[s].inbox.buf) + 1
                                    ELSE ChannelCapacity
             ELSE /\ subscribers'[s].notified = <<>>
                  /\ subscribers'[s].inbox = subscribers[s].inbox ]_vars

\* Two live subscribers of the kind of a committed insert were each sent its
\* event.
C13_Witness ==
    /\ last.op = "insert" /\ Succeeded(last)
    /\ last.live = Subs /\ Cardinality(Subs) = 2
    /\ \A s \in Subs :
         /\ subscribers[s].status = "active" /\ subscribers[s].kind = last.kind
         /\ subscribers[s].notified = << Inserted(last.kind, last.id, TheOne(last.value)) >>

NoneReading == \A r \in Readers : readers[r].status = "idle"

\* C15: while resources_mut holds the state lock no read callback executes
\* and no other writer acts (no insert, remove or subscribe completes, the
\* store and the record of the latest call change only by its return); a
\* step of insert, remove, resources_mut or subscribe is taken only while no
\* read callback executes; a transaction is open only under the lock, from
\* its begin to the step that sends its events. Read callbacks may overlap
\* each other.
C15_SingleWriter ==
    [][ /\ lock' = "writer" => NoneReading'
        /\ ( \/ store' # store \/ last' # last \/ tx' # tx \/ lock' # lock
             \/ \E s \in Subs : /\ subscribers'[s].status = "active"
                                /\ subscribers'[s] # subscribers[s] )
           => NoneReading /\ NoneReading'
        /\ lock = "writer"
           => /\ (store' # store \/ last' # last) => ReturnStep
              /\ \A s \in Subs : subscribers'[s].status = "active"
                                 => subscribers[s].status = "active"
        /\ tx' # NoTransaction => lock' = "writer"
        /\ \A s \in Subs :
             (subscribers'[s].status = "active" /\ subscribers'[s].notified # <<>>
              /\ subscribers'[s].notified # subscribers[s].notified)
             => InsertStep \/ RemoveStep \/ ReturnStep ]_vars

\* Two read callbacks execute at the same time, after a resources_mut.
C15_Witness ==
    /\ \A r \in Readers : readers[r].status = "reading"
    /\ Cardinality(Readers) = 2
    /\ last.op = "resources_mut"

\* C16: every query of a read callback returns what the committed storage
\* held when the callback acquired the lock, get and list agreeing, so that
\* all queries of one callback observe the same state; and the committed
\* storage changes only by the step of a call that commits: not while a
\* transaction is open, and not when it is rolled back.
C16_ReadersSeeCommitted ==
    [][ /\ \A r \in Readers :
             readers'[r].status = "reading"
             => /\ readers'[r].from = store'
                /\ \A o \in readers'[r].seen :
                     /\ o.value = StorageGet(backend, readers'[r].from, o.kind, o.id)
                     /\ o.listed = o.value
        /\ store' # store => last'.committed /\ (InsertStep \/ RemoveStep \/ ReturnStep)
        /\ (lock = "writer" /\ lock' = "writer") => store' = store /\ store = tx.before
        /\ (ReturnStep /\ ~last'.committed) => store' = tx.before ]_vars

\* A read callback, run after a rolled-back closure that had inserted into a
\* kind, queried that kind and got the value committed before.
C16_Witness ==
    /\ last.op = "resources_mut" /\ last.inner = "Err"
    /\ \E r \in Readers :
         /\ readers[r].status = "reading"
         /\ \E o \in readers[r].seen : o.value # {} /\ last.inserted[o.kind] > 0

\* C17: a read issued after a successful insert(id, v) returns v for id, and
\* one issued after a successful remove(id) returns nothing for it.
C17_ReadAfterCommit ==
    \A r \in Readers : \A o \in readers[r].seen :
      ( /\ readers[r].status = "reading" /\ Succeeded(last)
        /\ o.kind = last.kind /\ o.id = last.id )
      => /\ last.op = "insert" => o.value = last.value /\ o.listed = last.value
         /\ last.op = "remove" => o.value = {} /\ o.listed = {}

\* C18: the channel of a subscriber holds the events of earlier calls before
\* the events of a later one: each call appends the events it sends, in the
\* order sent, behind what the channel held (the oldest falling out of a full
\* channel), and no other step changes the channel.
C18_WriterOrder ==
    [][ \A s \in Subs :
          (subscribers[s].status = "active" /\ subscribers'[s].status = "active")
          => LET sent == IF InsertStep \/ RemoveStep \/ ReturnStep
                         THEN subscribers'[s].notified ELSE <<>>
                 all  == subscribers[s].inbox.buf \o sent
                 keep == IF Len(all) < ChannelCapacity THEN Len(all) ELSE ChannelCapacity
             IN  subscribers'[s].inbox.buf = SubSeq(all, Len(all) - keep + 1, Len(all)) ]_vars

\* The channel of a subscriber holds the event of an earlier call and behind
\* it the different event of the latest insert.
C18_Witness ==
    /\ last.op = "insert" /\ Succeeded(last)
    /\ \E s \in last.live :
         LET buf == subscribers[s].inbox.buf
         IN  /\ subscribers[s].status = "active" /\ subscribers[s].kind = last.kind
             /\ Len(buf) >= 2
             /\ subscribers[s].notified = << buf[Len(buf)] >>
             /\ buf[Len(buf) - 1] # buf[Len(buf)]

\* C19: when insert, remove or resources_mut returns an outer or an inner
\* Err, the storage is as it was before the call and no subscriber was sent
\* an event.
C19_FailureChangesNothing ==
    [][ ( /\ InsertStep \/ RemoveStep \/ ReturnStep
          /\ last'.outer # "Ok" \/ last'.inner # "Ok" )
        => /\ store' = IF ReturnStep THEN tx.before ELSE store
           /\ store' = store
           /\ \A s \in Subs : /\ subscribers'[s].notified = <<>>
                              /\ subscribers'[s].inbox = subscribers[s].inbox ]_vars

\* An insert whose commit failed, with a live subscriber of its kind.
C19_Witness ==
    /\ last.op = "insert" /\ last.outer = "Err" /\ ~last.committed
    /\ \E s \in last.live :
         subscribers[s].status = "active" /\ subscribers[s].kind = last.kind

\* The operations a committing step applies: the one of an insert or remove,
\* or those of the closure.
CommittedBy ==
    IF ReturnStep THEN tx.performed
    ELSE << Performed(last'.op, last'.kind, last'.id, last'.value, TRUE, last'.returned) >>

\* C20: a committing call leaves get(id) = Some(v) where its last mutation of
\* (R, id) was insert(id, v), None where it was a remove, and unchanged where
\* it had none; list<R> holds at most one entity per id, the one get returns.
C20_MapSemantics ==
    [][ ((InsertStep \/ RemoveStep \/ ReturnStep) /\ last'.committed)
        => \A k \in Kinds, id \in Ids :
             LET latest == LatestOn(CommittedBy, k, id)
                 listed == { e \in ManagerList(k)' : e.id = id }
             IN  /\ ManagerGet(k, id)' =
                       IF latest = {} THEN ManagerGet(k, id)
                       ELSE IF TheOne(latest).op = "insert" THEN TheOne(latest).value
                       ELSE {}
                 /\ Cardinality(listed) <= 1
                 /\ { e.value : e \in listed } = ManagerGet(k, id)' ]_vars

\* The foreign keys of the relational schema hold in storage st: every
\* cluster deployment has the cluster configuration of its cluster id, and
\* every network interface row has its peer descriptor row.
ForeignKeysHold(st) ==
    /\ \A id \in Ids : st.kv["ClusterDeployment"][id] # {}
                        => st.kv["ClusterConfiguration"][id] # {}
    /\ \A row \in st.network_interface_descriptor : st.peer_descriptor[row[1]] # {}

\* C21: on the relational backend the committed storage, and the working
\* copy of an open transaction, always satisfy the foreign keys; an insert
\* of a ClusterDeployment whose cluster id has no ClusterConfiguration
\* returns an error and stores nothing, and a resources_mut whose closure
\* performed such an insert is not committed: the storage is what it was
\* before the call.
C21_ForeignKeyDiscipline ==
    [][ backend = "Persistent"
        => /\ ForeignKeysHold(store')
           /\ lock' = "writer" => ForeignKeysHold(tx'.work)
           /\ ( /\ InsertStep /\ last'.kind = "ClusterDeployment"
                /\ ManagerGet("ClusterConfiguration", last'.id) = {} )
              => last'.inner = "Err" /\ ~last'.committed /\ store' = store
           /\ ClosureStep
              => LET p == tx'.performed[Len(tx'.performed)]
                 IN  ( /\ p.op = "insert" /\ p.kind = "ClusterDeployment"
                       /\ TransactionGet(backend, tx, "ClusterConfiguration", p.id) = {} )
                     => ~p.ok /\ tx'.work = tx.work /\ tx'.relay = tx.relay
           /\ ( /\ ReturnStep
                /\ \E i \in 1..Len(tx.performed) :
                     /\ ~tx.performed[i].ok /\ tx.performed[i].op = "insert"
                     /\ tx.performed[i].kind = "ClusterDeployment" )
              => ~last'.committed /\ store' = tx.before ]_vars

\* A closure on the relational backend inserted a peer descriptor, failed to
\* insert a cluster deployment without its configuration, and was rolled back.
C21_Witness ==
    /\ lock = "free" /\ backend = "Persistent"
    /\ last.op = "resources_mut" /\ ~last.committed
    /\ last.failures = 1 /\ last.inserted["PeerDescriptor"] = 1
    /\ last.inserted["ClusterDeployment"] = 0
    /\ "ClusterDeployment" \in scope
    /\ ManagerGet("PeerDescriptor", 1) = {}

\* What the callers of get see of storage st of a backend, held the way the
\* volatile backend holds it.
VolatileImage(b, st) ==
    [ EmptyStorage EXCEPT !.kv = [ k \in Kinds |->
                                     [ id \in Ids |-> StorageGet(b, st, k, id) ] ] ]

\* What get and list return for every kind and id of storage st.
Answers(b, st) ==
    [ k \in Kinds |-> [ get |-> [ id \in Ids |-> StorageGet(b, st, k, id) ],
                        list |-> StorageList(b, st, k) ] ]

\* C22: the two backends answer alike: whatever the backend, a successful
\* insert or remove, of the manager or of a closure, returns what the
\* volatile backend returns for it and leaves get and list of every kind
\* returning what they return on the volatile backend after the same call,
\* and a successful insert sends the same event to the same subscribers.
C22_BackendsInterchangeable ==
    [][ /\ (InsertStep /\ Succeeded(last'))
           => LET volatile == StorageInsert("Volatile", VolatileImage(backend, store),
                                            last'.kind, last'.id, TheOne(last'.value))
              IN  /\ Answers(backend, store') = Answers("Volatile", volatile.st)
                  /\ \A s \in Subs :
                       (subscribers[s].status = "active" /\ subscribers[s].kind = last'.kind)
                       => subscribers'[s].notified =
                            << Inserted(last'.kind, last'.id, TheOne(last'.value)) >>
        /\ (RemoveStep /\ Succeeded(last'))
           => LET volatile == StorageRemove("Volatile", VolatileImage(backend, store),
                                            last'.kind, last'.id)
              IN  /\ Answers(backend, store') = Answers("Volatile", volatile.st)
                  /\ last'.returned = volatile.returned
        /\ (ClosureStep /\ tx'.performed[Len(tx'.performed)].ok)
           => LET p == tx'.performed[Len(tx'.performed)]
                  volatile == IF p.op = "insert"
                              THEN StorageInsert("Volatile", VolatileImage(backend, tx.work),
                                                 p.kind, p.id, TheOne(p.value)).st
                              ELSE StorageRemove("Volatile", VolatileImage(backend, tx.work),
                                                 p.kind, p.id).st
              IN  Answers(backend, tx'.work) = Answers("Volatile", volatile) ]_vars

\* C24: a remove of an id that holds no entity of the kind changes nothing:
\* the manager's remove returns no value and no error of the storage
\* operation (Ok(None), unless the commit itself fails), leaves the storage
\* of every kind as it was and sends no event to any subscriber; a remove
\* in a closure returns Ok(None) and leaves the working copy and the relay
\* buffer as they were.
C24_RemoveAbsentIsNoOp ==
    [][ /\ (RemoveStep /\ ManagerGet(last'.kind, last'.id) = {})
           => /\ last'.returned = {} /\ last'.inner = "Ok"
              /\ last'.outer = "Ok" <=> last'.committed
              /\ last'.outer \in {"Ok", "Err"}
              /\ store' = store
              /\ \A s \in Subs : /\ subscribers'[s].notified = <<>>
                                 /\ subscribers'[s].inbox = subscribers[s].inbox
        /\ ClosureStep
           => LET p == tx'.performed[Len(tx'.performed)]
              IN  ( /\ p.op = "remove" /\ ~tx.poisoned
                    /\ TransactionGet(backend, tx, p.kind, p.id) = {} )
                  => /\ p.ok /\ p.returned = {}
                     /\ tx'.work = tx.work /\ tx'.relay = tx.relay ]_vars

\* A remove of an absent id returned Ok(None) while another kind held an
\* entity under that id and a subscriber of the removed kind was live.
C24_Witness ==
    /\ last.op = "remove" /\ Succeeded(last) /\ last.returned = {}
    /\ ManagerGet(last.kind, last.id) = {}
    /\ \E k2 \in Kinds \ {last.kind} : ManagerGet(k2, last.id) # {}
    /\ \E s \in last.live :
         /\ subscribers[s].status = "active" /\ subscribers[s].kind = last.kind
         /\ subscribers[s].notified = <<>>

\* C25: every transaction ends once, committed or aborted: the step that
\* ends it closes it and releases the lock; it is committed only if the
\* closure returned Ok, no statement had failed on the relational backend and
\* the commit succeeded, and then the working copy becomes the storage;
\* otherwise the storage stays what it was before the transaction. An
\* operation is applied only to a transaction that is open before and after
\* it, and events are sent to subscribers only by the step that ends a
\* committed transaction.
C25_TransactionLifecycle ==
    [][ /\ ReturnStep
           => /\ tx' = NoTransaction
              /\ last'.committed
                 => /\ last'.inner = "Ok" /\ last'.outer \in {"Ok", "Panic"}
                    /\ backend = "Persistent" => ~tx.poisoned
                    /\ store' = tx.work
              /\ ~last'.committed => store' = tx.before /\ store' = store
        /\ (InsertStep \/ RemoveStep)
           => /\ tx' = NoTransaction /\ tx = NoTransaction
              /\ last'.committed => last'.inner = "Ok" /\ last'.outer \in {"Ok", "Panic"}
              /\ ~last'.committed => store' = store
        /\ tx' # tx
           => \/ lock = "free" /\ lock' = "writer" /\ tx'.performed = <<>>
              \/ ClosureStep /\ Len(tx'.performed) = Len(tx.performed) + 1
              \/ ReturnStep
        /\ \A s \in Subs :
             (subscribers'[s].notified # <<>>
              /\ subscribers'[s].notified # subscribers[s].notified)
             => last'.committed /\ (InsertStep \/ RemoveStep \/ ReturnStep) ]_vars

\* A closure of two successful inserts was committed: its working copy is
\* the storage, and a live subscriber was sent its two events.
C25_Witness ==
    /\ lock = "free" /\ tx = NoTransaction
    /\ last.op = "resources_mut" /\ last.committed /\ last.failures = 0
    /\ store # EmptyStorage
    /\ \E s \in last.live :
         /\ subscribers[s].status = "active"
         /\ last.inserted[subscribers[s].kind] = 2
         /\ Len(subscribers[s].notified) = 2

C23_LoadPersistenceOptions ==
    options # NotLoaded
    => /\ config.enabled = {FALSE} => options = [ tag |-> "Disabled" ]
       /\ config.enabled = {TRUE}
          => /\ options.tag \in {"Enabled", "Err"}
             /\ options.tag = "Enabled"
                <=> /\ config.url # {} /\ config.username # {} /\ config.password # {}
                    /\ \A u \in config.url : UrlParse(u).ok
             /\ options.tag = "Enabled"
                => /\ \A u \in config.url :
                        options.database_connect_info.url
                          = [ scheme |-> u[1], host |-> u[Len(u)] ]
                   /\ config.username = { options.database_connect_info.username }
                   /\ config.password = { options.database_connect_info.password }
             /\ options.tag = "Err"
                => IF config.url = {}
                   THEN /\ options.kind = "FieldRetrieval"
                        /\ options.field = "persistence.database.url"
                   ELSE IF \E u \in config.url : ~UrlParse(u).ok
                   THEN /\ options.kind = "Parse"
                        /\ options.field = "persistence.database.url"
                        /\ options.value = config.url
                   ELSE IF config.username = {}
                   THEN /\ options.kind = "FieldRetrieval"
                        /\ options.field = "persistence.database.username"
                   ELSE /\ options.kind = "FieldRetrieval"
                        /\ options.field = "persistence.database.password"
                        /\ config.password = {}
       /\ backend = "Volatile" => options.tag = "Disabled"
       /\ backend # "Unconnected" => options.tag # "Err"

\* Persistence is enabled, the url does not parse and the username is
\* missing: load returned the Parse error of the url.
C23_Witness ==
    /\ config.enabled = {TRUE}
    /\ config.url = { << "db.example" >> } /\ config.username = {}
    /\ options.tag = "Err" /\ options.kind = "Parse"

\* The peers whose rows the latest list selected, and those of them whose
\* row does not convert.
Selected == { p \in listing.filter : rows[p] # {} }

Unconvertible == { p \in Selected : ~PeerDescriptorFromRow(p, TheOne(rows[p])).ok }

\* C30 as stated: when a stored name, location or bridge name of a selected
\* row fails to re-parse, the list (or the get, a list by id) returns an
\* error of kind Get that carries the offending peer id, and no list.
C30_ValidationSurfacedAsGet ==
    (listing.returned.tag # "NotListed" /\ Unconvertible # {})
    => /\ listing.returned.tag = "Err"
       /\ listing.returned.kind = "Get"
       /\ listing.returned.id \in Unconvertible

\* C30, amended: when a stored name, location or bridge name of a selected
\* row fails to re-parse, the list (or the get, a list by id) returns an
\* error of kind List with the context of the conversion, whose cause is
\* the error of kind Get that carries the id of an offending peer and the
\* first of its name, location and bridge name that failed; no list is
\* returned, not even of the rows that convert. When every selected row
\* converts, the descriptors of exactly the selected peers are returned.
C30_ValidationSurfacedInList ==
    listing.returned.tag # "NotListed"
    => IF Unconvertible # {}
       THEN /\ listing.returned.tag = "Err"
            /\ listing.returned.kind = "List"
            /\ listing.returned.context
                 = "Failed to convert from database values to PeerDescriptor."
            /\ listing.returned.cause.kind = "Get"
            /\ listing.returned.cause.id \in Unconvertible
            /\ LET row == TheOne(rows[listing.returned.cause.id])
                   field == listing.returned.cause.cause
               IN  /\ field = "name" <=> ~TryFrom(row.name)
                   /\ field = "location"
                      <=> TryFrom(row.name) /\ \E x \in row.location : ~TryFrom(x)
                   /\ field \in {"name", "location", "network_bridge_name"}
            /\ DOMAIN listing.returned = {"tag", "kind", "context", "cause"}
       ELSE /\ listing.returned.tag = "Ok"
            /\ { e.id : e \in listing.returned.entries } = Selected

\* A list without a filter over two stored peers, of which one converts and
\* the other has a valid name and an invalid location, returned the error.
C30_Witness ==
    /\ listing.filter = StoredPeers /\ Cardinality(Selected) = 2
    /\ Cardinality(Unconvertible) = 1
    /\ listing.returned.tag = "Err"
    /\ listing.returned.cause.cause = "location"

\* C27: a caller is cancelled only where it is suspended, waiting for the
\* writer lock, before it has begun a transaction; the cancellation leaves
\* the storage, the open transaction of another caller, the subscribers'
\* channels and the lock as they were, and the cancelled caller keeps nobody
\* from the lock: read callbacks and writers are served when the lock is free
\* and no other caller is queued. A caller that holds the lock runs to the
\* end of its call, so no call stops between the lock and the sending of its
\* events.
C27_CancellationIsRollback ==
    [][ /\ \A c \in Callers :
             (waiting'[c] = "cancelled" /\ waiting[c] # "cancelled")
             => /\ waiting[c] = "awaiting"
                /\ store' = store /\ tx' = tx /\ lock' = lock
                /\ subscribers' = subscribers /\ last' = last
                /\ readers' = readers /\ ops' = ops
        /\ (lock = "free" /\ NoneAwaiting)
           => /\ \A r \in Readers : readers[r].status = "idle" => ENABLED ResourcesBegin(r)
              /\ NoneReading => ENABLED ResourcesMutBegin
        /\ (lock = "writer" /\ lock' = "free")
           => \/ last'.committed /\ store' = tx.work
              \/ ~last'.committed /\ store' = store
                 /\ \A s \in Subs : subscribers'[s].notified = <<>> ]_vars

\* A caller was cancelled while it waited for the lock that the closure of
\* another caller, with an insert performed, holds.
C27_Witness ==
    /\ \E c \in Callers : waiting[c] = "cancelled"
    /\ lock = "writer" /\ tx.performed # <<>>
    /\ tx.work # store

\* C28: when the closure of a resources_mut panics, the transaction is not
\* committed, the storage is what it was before the call, the relay buffer
\* is dropped with the transaction and no subscriber is sent an event, the
\* writer lock is released, and the caller gets the panic.
C28_PanicAborts ==
    [][ /\ (lock = "writer" /\ lock' = "free" /\ last'.inner = "Panic")
           => /\ ~last'.committed /\ last'.outer = "Panic"
              /\ store' = store /\ store' = tx.before
              /\ tx' = NoTransaction /\ tx'.relay = EmptyRelay
              /\ \A s \in Subs : /\ subscribers'[s].notified = <<>>
                                 /\ subscribers'[s].inbox = subscribers[s].inbox
        /\ (last'.inner = "Panic" /\ last.inner # "Panic")
           => lock = "writer" /\ lock' = "free" ]_vars

\* The closure of a resources_mut panicked after an insert of a kind that a
\* live subscriber listens to: nothing is stored and nothing was sent.
C28_Witness ==
    /\ lock = "free" /\ tx = NoTransaction
    /\ last.op = "resources_mut" /\ last.inner = "Panic"
    /\ store = EmptyStorage
    /\ \E s \in last.live :
         /\ subscribers[s].status = "active"
         /\ last.inserted[subscribers[s].kind] > 0
         /\ subscribers[s].notified = <<>>

\* C29: once the closure of a resources_mut waits for a call into the same
\* manager, it waits for ever: the writer lock stays held, the transaction,
\* the storage and the record of the latest call never change again, no
\* read callback begins and no subscription is made. Likewise a read
\* callback that waits for a writer operation keeps its read lock for ever,
\* and no writer operation ever completes.
C29_ReentrancyDeadlocks ==
    [][ /\ lock = "reentered"
           => /\ lock' = "reentered" /\ tx' = tx /\ store' = store
              /\ last' = last /\ ops' = ops
              /\ \A r \in Readers : readers'[r].status = "reading"
                                     => readers[r].status = "reading"
              /\ \A s \in Subs : subscribers'[s].status = "active"
                                 => subscribers[s].status = "active"
        /\ \A r \in Readers :
             readers[r].status = "awaiting_write"
             => /\ readers'[r] = readers[r]
                /\ lock = "free" /\ lock' = "free" /\ tx' = tx /\ store' = store
                /\ last' = last /\ ops' = ops
                /\ \A s \in Subs : subscribers'[s].status = "active"
                                   => subscribers[s].status = "active" ]_vars

\* The closure of a resources_mut, after an insert, waits for a call into
\* the manager, and another caller is queued for the lock behind it.
C29_Witness ==
    /\ lock = "reentered" /\ tx.performed # <<>>
    /\ \E c \in Callers : waiting[c] = "awaiting"

\* The descriptor a list by id returns for peer p of the stored rows, with
\* the interfaces of its child rows.
StoredValue(p) ==
    { [ descriptor |-> PeerDescriptorFromRow(p, row).value,
        interfaces |-> { c[2] : c \in { x \in store.network_interface_descriptor :
                                          x[1] = p } } ] : row \in rows[p] }

\* C31: the relational remove of a peer returns the value as it was stored
\* just before the delete (what the list by id gave, nothing for an absent
\* peer), and after it neither the row of the peer nor any of its child rows
\* remains, the rows of other peers staying; when the list fails, its error
\* is returned and nothing is deleted; when the delete fails, the Remove
\* error is returned and nothing is deleted.
C31_RelationalRemove ==
    [][ \A p \in StoredPeers :
          (listing'.filter = {p} /\ (listing' # listing \/ rows' # rows \/ store' # store))
          => LET returned == listing'.returned
             IN  IF \E row \in rows[p] : ~PeerDescriptorFromRow(p, row).ok
                 THEN /\ returned.tag = "Err" /\ returned.kind = "List"
                      /\ returned.cause.id = p
                      /\ rows' = rows /\ store' = store
                 ELSE /\ returned.tag \in {"Removed", "Err"}
                      /\ returned.tag = "Removed"
                         => /\ returned.value = StoredValue(p)
                            /\ rows'[p] = {}
                            /\ \A q \in StoredPeers \ {p} : rows'[q] = rows[q]
                            /\ store'.network_interface_descriptor
                                 = { c \in store.network_interface_descriptor : c[1] # p }
                      /\ returned.tag = "Err"
                         => /\ returned.kind = "Remove" /\ returned.id = p
                            /\ rows' = rows /\ store' = store ]_vars

\* A peer with two network interface rows was removed and returned with
\* them, the other peer keeping its row and its interface row.
C31_Witness ==
    /\ listing.returned.tag = "Removed"
    /\ \E v \in listing.returned.value : Cardinality(v.interfaces) = 2
    /\ \E p \in listing.filter, q \in StoredPeers \ listing.filter :
         /\ rows[p] = {} /\ rows[q] # {}
         /\ \A c \in store.network_interface_descriptor : c[1] = q
         /\ store.network_interface_descriptor # {}

(* ------------------- EDGAR setup: the task at work ------------------- *)

manager == << startup, database, waiting, backend, scope, store, subscribers, lock,
              tx, ops, last, readers >>

\* What the calls of a task leave alone besides the manager.
idle == << queue, published, created >>

\* task.check_fulfilled().
CheckFulfilledTask ==
    /\ task' = [ task EXCEPT !.fulfilled = CheckFulfilled(files, task.certificate) ]
    /\ UNCHANGED << manager, idle, files, inserting, deletion >>

\* task.execute(), of which the first n steps succeed; runs counts the
\* executions that succeeded in a row.
Execute(n) ==
    LET done == ExecuteTask(files, task.certificate, n)
    IN  /\ task.runs < MaxRuns
        /\ files' = done.files
        /\ task' = [ task EXCEPT !.executed = done.result, !.fulfilled = "NotChecked",
                                 !.runs = IF done.result = "Success" THEN @ + 1 ELSE 0 ]
        /\ UNCHANGED << manager, idle, inserting, deletion >>

\* A host with anything at the four paths, and a task for either certificate.
InitCertificate ==
    /\ backend = "Volatile"
    /\ scope = Kinds
    /\ store = EmptyStorage
    /\ subscribers = [ k \in Kinds |-> [ i \in 1..NumSubscribers |-> NoSubscriber ] ]
    /\ lock = "free"
    /\ tx = NoTransaction
    /\ ops = 0
    /\ last = NoCall
    /\ readers = [ r \in Readers |-> NoReader ]
    /\ waiting = [ c \in Callers |-> "idle" ]
    /\ config = NoConfig
    /\ options = NotLoaded
    /\ rows = [ p \in StoredPeers |-> {} ]
    /\ listing = NotListed
    /\ queue = << >>
    /\ published = NotRecorded
    /\ files \in FileSystems
    /\ task \in { [ NoTask EXCEPT !.certificate = c ] : c \in Certificates }
    /\ deletion = NotDeleted
    /\ inserting = NotInserted
    /\ created = NotCreated

CertificateNext ==
    \/ CheckFulfilledTask
    \/ \E n \in 0..Len(ExecuteSteps) : Execute(n)

SpecCertificate == InitCertificate /\ [][CertificateNext]_vars

\* The checksum of the certificate a task provides, as LF-encoded PEM.
ProvidedChecksum == ChecksumString([ pem |-> task.certificate, ending |-> "LF" ])

\* C32: On a system where none of the four files exists check_fulfilled
\* returns No; after an execute that succeeded check_fulfilled of the same
\* task returns Yes, and it still does after execute has run again.
C32_FulfilledAfterExecution ==
    [][ (task'.fulfilled # "NotChecked" /\ files' = files)
        => /\ files = NoFiles => task'.fulfilled = "No"
           /\ task.executed = "Success" => task'.fulfilled = "Yes" ]_vars

\* C32 witness: execute has succeeded twice in a row and check_fulfilled has
\* answered Yes after the second.
C32_Witness ==
    /\ task.executed = "Success"
    /\ task.runs = MaxRuns
    /\ task.fulfilled = "Yes"

\* C33: check_fulfilled takes the installed checksums from the two checksum
\* files when both exist, else computes them from the two certificate files
\* when both exist, else answers No; it answers Yes exactly when both
\* installed checksums equal the checksum of the LF-encoded PEM of the
\* provided certificate.
C33_CheckFulfilledDecision ==
    [][ (task'.fulfilled # "NotChecked" /\ files' = files)
        => LET bothChecksums == \A path \in ChecksumPaths : Exists(files, path)
               bothCertificates == \A path \in CertificatePaths : Exists(files, path)
           IN  /\ task'.fulfilled \in {"Yes", "No"}
               /\ bothChecksums =>
                    (task'.fulfilled = "Yes"
                       <=> \A path \in ChecksumPaths : files[path] = { ProvidedChecksum })
               /\ (~bothChecksums /\ bothCertificates) =>
                    (task'.fulfilled = "Yes"
                       <=> \A path \in CertificatePaths :
                              ChecksumFile(Content(files, path)) = ProvidedChecksum)
               /\ (~bothChecksums /\ ~bothCertificates) => task'.fulfilled = "No" ]_vars

\* C33 witness: only one checksum file exists and the certificate files
\* hold the provided certificate, so the answer Yes came from the files.
C33_Witness ==
    /\ task.fulfilled = "Yes"
    /\ Exists(files, "checksum_carl_ca_certificate_file")
    /\ ~Exists(files, "checksum_os_cert_store_ca_certificate_file")
    /\ files["checksum_carl_ca_certificate_file"] # { ProvidedChecksum }

(* ---------------------- the state lock under fairness ------------------ *)

\* A manager of one kind on the relational backend, where a commit can fail,
\* whose callers never call back into it.
InitFair ==
    /\ backend = "Persistent"
    /\ scope = {"ClusterConfiguration"}
    /\ store = EmptyStorage
    /\ subscribers = [ s \in Subs |-> NoSubscriber ]
    /\ lock = "free"
    /\ tx = NoTransaction
    /\ ops = 0
    /\ last = NoCall
    /\ readers = [ r \in Readers |-> NoReader ]
    /\ waiting = [ c \in Callers |-> "idle" ]
    /\ config = NoConfig
    /\ options = NotLoaded
    /\ rows = [ p \in StoredPeers |-> {} ]
    /\ listing = NotListed
    /\ NothingElse

\* Callers of insert, resources_mut and resources that are served at once or
\* wait for the lock; no call is cancelled, panics or re-enters.
FairNext ==
    \/ \E c \in Callers : AwaitWrite(c)
    \/ \E c \in Callers : AwaitInsert(c)
    \/ \E c \in Callers : AwaitedResourcesMutBegin(c)
    \/ \E c \in Callers : \E k \in scope, id \in Ids : \E v \in ValuesOf(k) :
         AwaitedInsert(c, k, id, v)
    \/ ResourcesMutBegin
    \/ \E k \in scope, id \in Ids : \E v \in ValuesOf(k) :
         ops + PendingInserts < MaxFairOps /\ TxInsert(k, id, v)
    \/ ResourcesMutReturnOk
    \/ ResourcesMutReturnErr
    \/ \E k \in scope, id \in Ids : \E v \in ValuesOf(k) :
         ops + PendingInserts < MaxFairOps /\ Insert(k, id, v)
    \/ \E r \in Readers : ResourcesBegin(r)
    \/ \E r \in Readers : AwaitRead(r)
    \/ \E r \in Readers : AwaitedResourcesBegin(r)
    \/ \E r \in Readers : ResourcesReturn(r)

\* The closures and read callbacks return (they do not re-enter), and the
\* caller at the head of the queue is given the lock once it is free: the
\* runtime polls the task that the release has woken.
Fairness ==
    /\ WF_vars(ResourcesMutReturnOk \/ ResourcesMutReturnErr)
    /\ \A r \in Readers : WF_vars(ResourcesReturn(r))
    /\ \A c \in Callers : WF_vars(AwaitedResourcesMutBegin(c))
    /\ \A c \in Callers : WF_vars(\E k \in scope, id \in Ids : \E v \in ValuesOf(k) :
                                     AwaitedInsert(c, k, id, v))
    /\ \A r \in Readers : WF_vars(AwaitedResourcesBegin(r))

SpecFair == InitFair /\ [][FairNext]_vars /\ Fairness

\* C34: every call that does not re-enter returns with the state lock
\* released, on the early return on a transaction error as well; under a
\* fair lock every caller that waits for the lock acquires it, and every
\* holder of the lock completes.
C34_LockReleaseAndProgress ==
    /\ [][ /\ last' # last => (lock' = "free" /\ tx' = NoTransaction)
           /\ \A r \in Readers :
                (readers[r].status = "reading" /\ readers'[r].status # "reading")
                => readers'[r] = NoReader ]_vars
    /\ (lock = "writer") ~> (lock = "free")
    /\ \A c \in Callers : (waiting[c] # "idle") ~> (waiting[c] = "idle")
    /\ \A r \in Readers : (readers[r].status = "awaiting_read") ~> (readers[r].status = "reading")
    /\ \A r \in Readers : (readers[r].status = "reading") ~> (readers[r].status = "idle")

\* C34 witness: a call has returned early on a transaction error, a closure
\* holds the lock, and two writers and a reader wait for it.
C34_Witness ==
    /\ last.outer = "Err"
    /\ lock = "writer"
    /\ waiting[1] = "awaiting" /\ waiting[2] = "awaiting_insert"
    /\ \E r \in Readers : readers[r].status = "awaiting_read"

(* ------------------- the order of publication, recorded ---------------- *)

\* Storage operations per closure where the calls of notify are recorded.
MaxPublishedOps == 3

\* A manager of any two kinds with the calls of notify recorded.
InitPublication ==
    /\ backend \in {"Volatile", "Persistent"}
    /\ scope \in { ks \in SUBSET Kinds : Cardinality(ks) = KindsInUse }
    /\ store = EmptyStorage
    /\ subscribers = [ s \in Subs |-> NoSubscriber ]
    /\ lock = "free"
    /\ tx = NoTransaction
    /\ ops = 0
    /\ last = NoCall
    /\ readers = [ r \in Readers |-> NoReader ]
    /\ waiting = [ c \in Callers |-> "idle" ]
    /\ config = NoConfig
    /\ options = NotLoaded
    /\ rows = [ p \in StoredPeers |-> {} ]
    /\ listing = NotListed
    /\ queue = << >>
    /\ published = [ NotRecorded EXCEPT !.recording = TRUE ]
    /\ files = NoFiles
    /\ task = NoTask
    /\ deletion = NotDeleted
    /\ inserting = NotInserted
    /\ created = NotCreated

\* One subscriber and closures of up to MaxPublishedOps inserts and removes.
PublicationNext ==
    \/ \E k \in scope : Subscribe(1, k)
    \/ ResourcesMutBegin
    \/ \E k \in scope, id \in Ids : \E v \in ValuesOf(k) :
         ops < MaxPublishedOps /\ TxInsert(k, id, v)
    \/ \E k \in scope, id \in Ids : ops < MaxPublishedOps /\ TxRemove(k, id)
    \/ ResourcesMutReturnOk
    \/ ResourcesMutReturnErr

SpecPublication == InitPublication /\ [][PublicationNext]_vars

\* The place of a kind in the order in which the relay channels are drained:
\* cluster configuration, cluster deployment, legacy peer configuration,
\* peer configuration, peer descriptor, peer state.
PlaceOf(k) ==
    CASE k = "ClusterConfiguration" -> 1
      [] k = "ClusterDeployment" -> 2
      [] k = "OldPeerConfiguration" -> 3
      [] k = "PeerConfiguration" -> 4
      [] k = "PeerDescriptor" -> 5
      [] k = "PeerState" -> 6

OfKind(events, k) == SelectSeq(events, LAMBDA e : e.kind = k)

\* Whether the events of part occur in whole in the same relative order.
RECURSIVE InOrderOf(_, _)
InOrderOf(part, whole) ==
    IF part = << >> THEN TRUE
    ELSE IF whole = << >> THEN FALSE
    ELSE IF Head(part) = Head(whole) THEN InOrderOf(Tail(part), Tail(whole))
    ELSE InOrderOf(part, Tail(whole))

\* C35: the events a committed transaction publishes are grouped by kind in
\* the fixed order cluster configuration, cluster deployment, legacy peer
\* configuration, peer configuration, peer descriptor, peer state, whatever
\* the order of execution was; the events of one kind keep the order in
\* which they were executed.
C35_CrossKindPublicationOrder ==
    /\ \A i, j \in 1..Len(published.events) :
         i < j => PlaceOf(published.events[i].kind) <= PlaceOf(published.events[j].kind)
    /\ \A k \in Kinds :
         InOrderOf(OfKind(published.events, k), OfKind(published.executed, k))

\* C35 witness: a committed closure inserted a later kind first, then an
\* earlier kind twice; the events were published in another order than
\* executed.
C35_Witness ==
    /\ last.op = "resources_mut" /\ last.committed
    /\ Len(published.executed) = 3
    /\ Len(published.events) = 3
    /\ PlaceOf(published.executed[1].kind) > PlaceOf(published.executed[2].kind)
    /\ published.executed[2].kind = published.executed[3].kind
    /\ published.executed[2] # published.executed[3]
    /\ published.events # published.executed

(* ------------------ what reads and subscribe leave alone --------------- *)

\* Storage operations per behaviour where reads and subscriptions are framed.
MaxFramedOps == 2

\* Readers and subscribers on every slot next to writers that perform up to
\* MaxFramedOps storage operations.
FramedNext ==
    \/ \E r \in 1..SoloReaders : ResourcesBegin(r)
    \/ \E r \in 1..SoloReaders, k \in scope, id \in Ids : ResourcesQuery(r, k, id)
    \/ \E r \in 1..SoloReaders : ResourcesReturn(r)
    \/ \E k \in scope, id \in Ids : \E v \in ValuesOf(k) :
         ops < MaxFramedOps /\ Insert(k, id, v)
    \/ ResourcesMutBegin
    \/ \E k \in scope, id \in Ids : \E v \in ValuesOf(k) :
         ops < MaxFramedOps /\ TxInsert(k, id, v)
    \/ ResourcesMutReturnOk
    \/ ResourcesMutReturnErr
    \/ \E s \in Subs, k \in scope : Subscribe(s, k)

SpecFramed == Init /\ [][FramedNext]_vars

\* C36: get, list and resources(f) never change the store and cause no
\* event; subscribe never changes the store and delivers nothing to the
\* subscribers that existed before; an insert that returns an error inside a
\* transaction queues no event in the relay buffer.
C36_ReadsAndSubscribeFrame ==
    [][ /\ readers' # readers
           => /\ store' = store /\ tx' = tx /\ last' = last
              /\ subscribers' = subscribers
        /\ (\E s \in Subs : subscribers[s].status = "none" /\ subscribers'[s].status = "active")
           => /\ store' = store /\ tx' = tx /\ last' = last
              /\ \A s \in Subs : subscribers[s].status # "none"
                                 => subscribers'[s] = subscribers[s]
              /\ \A s \in Subs : subscribers'[s].status = "active" /\ subscribers[s].status = "none"
                                 => subscribers'[s].inbox = EmptyChannel
        /\ (ClosureStep /\ ~tx'.performed[Len(tx'.performed)].ok)
           => /\ tx'.relay = tx.relay
              /\ subscribers' = subscribers ]_vars

\* C36 witness: with two subscriptions made one after the other, the closure
\* of a resources_mut has an insert that failed after one that succeeded.
C36_Witness ==
    /\ \A s \in Subs : subscribers[s].status = "active"
    /\ lock = "writer"
    /\ Len(tx.performed) = 2
    /\ tx.performed[1].ok /\ ~tx.performed[2].ok
    /\ tx.performed[2].op = "insert"
    /\ tx.relay # EmptyRelay

(* --------------------------- the manager created ----------------------- *)

CreateNext ==
    \/ Load
    \/ Create

SpecCreate == InitStartup /\ [][CreateNext]_vars

\* C37: ResourcesManager::create with PersistenceOptions::Disabled always
\* succeeds, with an empty volatile store and no subscribers; with Enabled
\* and a database that cannot be connected to it returns
\* ConnectionError::Database with the configured url, creates no manager and
\* does not fall back to the volatile store.
C37_CreateOrConnectionError ==
    /\ (options.tag = "Disabled" /\ created # NotCreated)
       => /\ created.tag = "Ok"
          /\ backend = "Volatile"
          /\ store = EmptyStorage
          /\ \A s \in Subs : subscribers[s].status = "none"
    /\ (options.tag = "Enabled" /\ created # NotCreated)
       => \/ created.tag = "Ok" /\ backend = "Persistent"
          \/ /\ created.tag = "Err" /\ created.kind = "Database"
             /\ created.url = [ scheme |-> TheOne(config.url)[1], host |-> TheOne(config.url)[2] ]
             /\ backend = "Unconnected"
    /\ options.tag \notin {"Enabled", "Disabled"} => created = NotCreated

\* C37 witness: the database at the configured postgres://db.example could
\* not be connected to.
C37_Witness ==
    /\ options.tag = "Enabled"
    /\ created.tag = "Err"
    /\ created.url.host = "db.example"

(* ------------------- a peer descriptor, row after row ------------------ *)

\* query::peer_descriptor::insert is called on the tables as they are.
InsertRows(descriptor, failing) ==
    /\ inserting' = PeerDescriptorInsertRows(inserting.table, descriptor, failing)
    /\ UNCHANGED << manager, idle, files, task, deletion >>

InsertionNext ==
    \E descriptor \in InsertedDescriptors :
      \E failing \in 0..Len(PeerDescriptorInsertStatements(descriptor)) :
        InsertRows(descriptor, failing)

\* The relational backend with empty tables.
InitInsertion ==
    /\ backend = "Persistent"
    /\ scope = {"PeerDescriptor"}
    /\ store = EmptyStorage
    /\ subscribers = [ s \in Subs |-> NoSubscriber ]
    /\ lock = "free"
    /\ tx = NoTransaction
    /\ ops = 0
    /\ last = NoCall
    /\ readers = [ r \in Readers |-> NoReader ]
    /\ waiting = [ c \in Callers |-> "idle" ]
    /\ config = NoConfig
    /\ options = NotLoaded
    /\ rows = [ p \in StoredPeers |-> {} ]
    /\ listing = NotListed
    /\ NothingElse

SpecInsertion == InitInsertion /\ [][InsertionNext]_vars

\* The place of a table in the order of the statements of insert.
TableRank(table) ==
    CASE table = "peer_descriptor" -> 1
      [] table = "network_interface_descriptor" -> 2
      [] table = "device_descriptor" -> 3
      [] table = "executor_descriptor" -> 4

\* The rows of the statements issued on one table, in the order issued.
IssuedOn(issued, table) ==
    LET on == SelectSeq(issued, LAMBDA statement : statement.table = table)
    IN  [ i \in 1..Len(on) |-> on[i].row ]

IsPrefix(part, whole) ==
    /\ Len(part) <= Len(whole)
    /\ \A i \in 1..Len(part) : part[i] = whole[i]

\* C38: the relational insert of a peer descriptor upserts the parent row
\* first, then each network interface, then each device, then each executor;
\* it stops at the first statement that fails and returns its error without
\* issuing the remaining ones, so that no child row is written before the
\* parent row.
C38_ParentThenChildren ==
    inserting.result.tag # "NotCalled"
    => LET issued == inserting.issued
           descriptor == inserting.descriptor
           children == Len(descriptor.interfaces) + Len(descriptor.devices)
                       + Len(descriptor.executors)
       IN  /\ issued # << >>
           /\ issued[1] = Statement("peer_descriptor", descriptor.id, "")
           /\ \A i, j \in 1..Len(issued) :
                i < j => /\ TableRank(issued[i].table) <= TableRank(issued[j].table)
                         /\ TableRank(issued[j].table) > 1
           /\ IsPrefix(IssuedOn(issued, "network_interface_descriptor"), descriptor.interfaces)
           /\ IsPrefix(IssuedOn(issued, "device_descriptor"), descriptor.devices)
           /\ IsPrefix(IssuedOn(issued, "executor_descriptor"), descriptor.executors)
           /\ inserting.result.tag = "Ok" => Len(issued) = 1 + children
           /\ inserting.result.tag = "Err"
              => /\ inserting.result.statement = issued[Len(issued)]
                 /\ \A table \in {"device_descriptor", "executor_descriptor"} :
                      IssuedOn(issued, table) # << >>
                      => IssuedOn(issued, "network_interface_descriptor") = descriptor.interfaces
                 /\ IssuedOn(issued, "executor_descriptor") # << >>
                      => IssuedOn(issued, "device_descriptor") = descriptor.devices
           /\ \A row \in inserting.table :
                Statement("peer_descriptor", row.peer, "") \in inserting.table

\* C38 witness: the insert of a descriptor with two interfaces, a device and
\* an executor on empty tables failed at its device: parent row and
\* interfaces are written, the executor was not tried.
C38_Witness ==
    /\ inserting.result.tag = "Err"
    /\ inserting.result.statement.table = "device_descriptor"
    /\ Len(inserting.descriptor.interfaces) = 2
    /\ Len(inserting.descriptor.executors) = 1
    /\ Len(inserting.issued) = 4
    /\ Cardinality(inserting.table) = 3

(* --------------------- the clients of a resource deleted --------------- *)

\* delete_client is called for a resource, with the identity provider
\* listing any clients and any outcome of each request.
DeleteClients(answer, rid, listed, outcomes) ==
    /\ deletion.result.tag = "NotCalled"
    /\ deletion' = DeleteClient(answer, rid, listed, outcomes)
    /\ UNCHANGED << manager, idle, files, task, inserting >>

DeletionNext ==
    \E answer \in ClientListings, rid \in ResourceIds, listed \in RequestOutcomes :
      \E outcomes \in [ 1..Len(answer) -> RequestOutcomes ] :
        DeleteClients(answer, rid, listed, outcomes)

SpecDeletion == InitInsertion /\ [][DeletionNext]_vars

\* The client ids of the listed clients whose deletion did not succeed.
NotDeletedOf(listed, outcomes) ==
    LET places == { i \in 1..Len(listed) : outcomes[i] # "Ok" }
        RECURSIVE From(_)
        From(i) == IF i > Len(listed) THEN << >>
                   ELSE (IF i \in places THEN << listed[i].client_id >> ELSE << >>) \o From(i + 1)
    IN  From(1)

\* C39: delete_client attempts the DELETE for every client whose base url
\* contains the resource id, also after an earlier deletion failed; it
\* returns Ok with the full list of the matched clients only when every
\* deletion succeeded, and otherwise ClientDeletionError naming exactly the
\* client ids whose deletion failed, in listing order.
C39_DeleteEveryClient ==
    (deletion.result.tag # "NotCalled" /\ deletion.listed # << >>)
    => LET failed == NotDeletedOf(deletion.listed, deletion.outcomes)
       IN  /\ deletion.attempted = ClientIds(deletion.listed)
           /\ deletion.result.tag = "Ok"
              <=> \A i \in 1..Len(deletion.listed) : deletion.outcomes[i] = "Ok"
           /\ deletion.result.tag = "Ok" => deletion.result.clients = deletion.listed
           /\ deletion.result.tag = "Err"
              => /\ deletion.result.kind = "ClientDeletionError"
                 /\ deletion.result.client_ids = Join(failed)

====
